---- MODULE Spec2Model ----
(***************************************************************************)
(* rmap: a TCP/UDP port scanner with nmap-style service detection.         *)
(*                                                                         *)
(* Text is modelled as a sequence of one-character strings, so that the    *)
(* splitting, trimming, lower-casing, substring and integer-parsing steps  *)
(* of the source are computed character by character.                      *)
(***************************************************************************)
EXTENDS Integers, Sequences, FiniteSets, TLC

VARIABLES
    \* ---- port specification parsing (TCPScanner::parse_ports)
    ports_str,      \* the text handed to parse_ports
    ports_more,     \* a second text, appended after a comma
    port_list,      \* the parsed lists, and whether the parse has run
    \* ---- classification of a failed connect (TCPScanner::syn_scan, Ok(Err(e)))
    err_kind,       \* e.kind()
    err_msg,        \* e.to_string()
    err_state,      \* the PortState chosen, "none" before the classification
    \* ---- matching one response against one probe (Prober::try_probe)
    m_probe,        \* the ProbeEntry
    m_response,     \* the response text read from the stream
    m_result,       \* Option<ServiceInfo>, and whether the matching has run
    \* ---- version-template substitution (Prober::process_version_field)
    s_value,        \* the template of a version field
    s_captures,     \* the capture groups of the match, group 0 first
    s_result,       \* the substituted text, and whether the substitution has run
    \* ---- escape decoding of a probe string (Prober::decode_probe_string)
    d_source,       \* the probe string
    d_bytes,        \* the decoded bytes, and whether the decoding has run
    \* ---- the relevant probes of a port (Prober::get_relevant_probes)
    r_probes,       \* the probe database
    r_port,         \* the port
    r_relevant,     \* the relevant probes, and whether the selection has run
    \* ---- the probe loader (parse_nmap_probes_json)
    nmap_content,   \* the lines of the probes file
    nmap_probes,    \* the database written, and whether the loader has run
    \* ---- a run of the scanner (Scanner::exec)
    config,         \* the Config of the run
    env,            \* what the probes file and the name lookup give
    exec_pc,        \* where Scanner::exec is: start, tcp_collect, udp_scan, done_ok, done_err
    targets,        \* TCPScanner::exec: the resolved targets
    target_mapping, \* TCPScanner::exec: resolved address -> original name
    permits,        \* available permits of global_semaphore
    scans,          \* per target: the state of its syn_scan
    tasks,          \* per target and port index: the state of the port task
    reports,        \* TCPScanner::exec: the results collected so far
    udp             \* UDPScanner: the state of exec / udp_scan

portVars == <<ports_str, ports_more, port_list>>
classVars == <<err_kind, err_msg, err_state>>
matchVars == <<m_probe, m_response, m_result>>
substVars == <<s_value, s_captures, s_result>>
decodeVars == <<d_source, d_bytes>>
relVars == <<r_probes, r_port, r_relevant>>
parseVars == <<nmap_content, nmap_probes>>

runVars == <<config, env, exec_pc, targets, target_mapping, permits, scans, tasks,
             reports, udp>>

vars == <<ports_str, ports_more, port_list, err_kind, err_msg, err_state,
          m_probe, m_response, m_result,
          s_value, s_captures, s_result, d_source, d_bytes,
          r_probes, r_port, r_relevant, nmap_content, nmap_probes,
          config, env, exec_pc, targets, target_mapping, permits, scans, tasks,
          reports, udp>>

(***************************************************************************)
(* Bounds of the model.                                                    *)
(***************************************************************************)
MaxLen == 3         \* longest generated first port text
MaxLenMore == 2     \* longest generated second port text
MaxMatches == 2     \* longest match list of a generated probe
MaxSoftMatches == 1 \* longest softmatch list of a generated probe
MaxThreads == 2     \* largest concurrency limit of a generated run
MaxTemplateLen == 3 \* longest generated version template
MaxGroups == 2      \* most capture groups of a generated match
MaxSourceLen == 4   \* longest generated probe string
MaxProbes == 2      \* most probes of a generated database
MaxLines == 3       \* most lines of a generated probes file
MaxProbeStringLen == 5  \* longest generated probestring of a Probe line
MaxClauseLen == 5   \* longest generated pattern clause of a match line
MaxFieldLen == 3    \* longest generated text after the tag of a version field

(***************************************************************************)
(* Program constants.                                                      *)
(***************************************************************************)
U16Max == 65535     \* u16::MAX, the target type of parse::<u16>()
HardConfidence == 90    \* confidence set by match_response
SoftConfidence == 50    \* confidence set by try_probe for a soft match

(***************************************************************************)
(* Text helpers.                                                           *)
(***************************************************************************)
BoundedSeq(S, n) == UNION {[1..k -> S] : k \in 0..n}

\* str::contains(char)
ContainsChar(s, c) == \E i \in 1..Len(s) : s[i] = c

\* str::contains(&str): needle occurs as a contiguous substring
Contains(s, needle) ==
    \E i \in 0..(Len(s) - Len(needle)) :
        \A j \in 1..Len(needle) : s[i + j] = needle[j]

\* char::is_whitespace restricted to the characters of the model
IsSpace(c) == c \in {" ", "\t"}

\* str::trim: drop leading and trailing whitespace
RECURSIVE TrimStart(_)
TrimStart(s) ==
    IF Len(s) > 0 /\ IsSpace(s[1]) THEN TrimStart(Tail(s)) ELSE s

RECURSIVE TrimEnd(_)
TrimEnd(s) ==
    IF Len(s) > 0 /\ IsSpace(s[Len(s)]) THEN TrimEnd(SubSeq(s, 1, Len(s) - 1)) ELSE s

Trim(s) == TrimEnd(TrimStart(s))

\* str::split(char): every separator ends a piece, empty pieces are kept
RECURSIVE SplitFrom(_, _, _, _, _)
SplitFrom(s, sep, i, cur, acc) ==
    IF i > Len(s) THEN Append(acc, cur)
    ELSE IF s[i] = sep THEN SplitFrom(s, sep, i + 1, <<>>, Append(acc, cur))
    ELSE SplitFrom(s, sep, i + 1, Append(cur, s[i]), acc)

Split(s, sep) == SplitFrom(s, sep, 1, <<>>, <<>>)

DigitChars == {"0", "1", "2", "3", "4", "5", "6", "7", "8", "9"}

DigitVal(c) ==
    CASE c = "0" -> 0 [] c = "1" -> 1 [] c = "2" -> 2 [] c = "3" -> 3
      [] c = "4" -> 4 [] c = "5" -> 5 [] c = "6" -> 6 [] c = "7" -> 7
      [] c = "8" -> 8 [] c = "9" -> 9 [] OTHER -> -1

\* The result of a failed parse::<u16>()
ParseErr == -1

\* The digit loop of u16::from_str: checked multiply and add, an error on a
\* non-digit and on overflow of the 16-bit result
RECURSIVE ParseDigits(_, _, _)
ParseDigits(d, i, acc) ==
    IF i > Len(d) THEN acc
    ELSE IF DigitVal(d[i]) < 0 THEN ParseErr
    ELSE LET v == acc * 10 + DigitVal(d[i])
         IN  IF v > U16Max THEN ParseErr ELSE ParseDigits(d, i + 1, v)

\* str::parse::<u16>(): empty text and a lone sign are errors, one leading
\* "+" is accepted, "-" is not (unsigned type)
ParseU16(s) ==
    IF Len(s) = 0 THEN ParseErr
    ELSE IF s[1] \in {"+", "-"} /\ Len(s) = 1 THEN ParseErr
    ELSE IF s[1] = "+" THEN ParseDigits(Tail(s), 1, 0)
    ELSE ParseDigits(s, 1, 0)

\* A range that swaps reversed ends instead of producing nothing
RangeSwapping(start, end) ==
    IF end >= start
    THEN [k \in 1..(end - start + 1) |-> start + k - 1]
    ELSE [k \in 1..(start - end + 1) |-> end + k - 1]

\* A range start..=end: ascending, empty when start > end
RangeInclusive(start, end) ==
    [k \in 1..(IF end >= start THEN end - start + 1 ELSE 0) |-> start + k - 1]

\* The ports one comma-separated part contributes (body of the for loop)
ExpandPart(raw) ==
    LET part == Trim(raw) IN
    IF ContainsChar(part, "-") THEN
        LET range_parts == Split(part, "-") IN
        IF Len(range_parts) = 2 THEN
            LET start == ParseU16(range_parts[1])
                end == ParseU16(range_parts[2])
            IN  IF start # ParseErr /\ end # ParseErr
                THEN RangeInclusive(start, end) ELSE <<>>
        ELSE <<>>
    ELSE
        LET port == ParseU16(part) IN
        IF port # ParseErr THEN <<port>> ELSE <<>>

RECURSIVE PushParts(_, _, _)
PushParts(parts, i, ports) ==
    IF i > Len(parts) THEN ports
    ELSE PushParts(parts, i + 1, ports \o ExpandPart(parts[i]))

\* A parse that drops a port already present in the list
RECURSIVE Dedup(_, _)
Dedup(s, acc) ==
    IF s = <<>> THEN acc
    ELSE IF \E i \in 1..Len(acc) : acc[i] = Head(s) THEN Dedup(Tail(s), acc)
    ELSE Dedup(Tail(s), Append(acc, Head(s)))

parse_ports_dedup(s) == Dedup(PushParts(Split(s, ","), 1, <<>>), <<>>)

\* TCPScanner::parse_ports (UDPScanner::parse_ports is the same text)
parse_ports(s) == PushParts(Split(s, ","), 1, <<>>)

(***************************************************************************)
(* Classification of a connect error (the Ok(Err(e)) arm of syn_scan).     *)
(***************************************************************************)
UpperChars == <<"A", "B", "C", "D", "E", "F", "G", "H", "I", "J", "K", "L", "M",
                "N", "O", "P", "Q", "R", "S", "T", "U", "V", "W", "X", "Y", "Z">>
LowerChars == <<"a", "b", "c", "d", "e", "f", "g", "h", "i", "j", "k", "l", "m",
                "n", "o", "p", "q", "r", "s", "t", "u", "v", "w", "x", "y", "z">>

LowerChar(c) ==
    IF \E i \in 1..26 : UpperChars[i] = c
    THEN LowerChars[CHOOSE i \in 1..26 : UpperChars[i] = c]
    ELSE c

\* str::to_lowercase
ToLowercase(s) == [i \in 1..Len(s) |-> LowerChar(s[i])]

Str_refused == <<"r", "e", "f", "u", "s", "e", "d">>
Str_timeout == <<"t", "i", "m", "e", "o", "u", "t">>
Str_unreachable == <<"u", "n", "r", "e", "a", "c", "h", "a", "b", "l", "e">>
Str_filtered == <<"f", "i", "l", "t", "e", "r", "e", "d">>

\* A message test that looks for the Filtered words before "refused"
ClassifyMessageFilteredFirst(msg) ==
    LET error_msg == ToLowercase(msg) IN
    IF Contains(error_msg, Str_timeout) \/ Contains(error_msg, Str_unreachable)
       \/ Contains(error_msg, Str_filtered) THEN "Filtered"
    ELSE "Closed"

\* The `_ =>` arm: the state inferred from the lower-cased message
ClassifyMessage(msg) ==
    LET error_msg == ToLowercase(msg) IN
    IF Contains(error_msg, Str_refused) THEN "Closed"
    ELSE IF Contains(error_msg, Str_timeout) \/ Contains(error_msg, Str_unreachable)
            \/ Contains(error_msg, Str_filtered) THEN "Filtered"
    ELSE "Closed"

\* A classification that skips the structured kinds
ClassifyConnectErrorByMessage(kind, msg) == ClassifyMessage(msg)

\* match e.kind() { ... }
ClassifyConnectError(kind, msg) ==
    CASE kind = "ConnectionRefused" -> "Closed"
      [] kind = "TimedOut" -> "Filtered"
      [] kind = "PermissionDenied" -> "Filtered"
      [] kind = "NetworkUnreachable" -> "Filtered"
      [] kind = "HostUnreachable" -> "Filtered"
      [] OTHER -> ClassifyMessage(msg)

StructuredKinds ==
    {"ConnectionRefused", "TimedOut", "PermissionDenied", "NetworkUnreachable",
     "HostUnreachable"}
OtherKinds == {"ConnectionReset", "AddrNotAvailable", "Other"}
ErrorKinds == StructuredKinds \cup OtherKinds

ErrorWords ==
    { <<>>,
      <<"C", "o", "n", "n", "e", "c", "t", "i", "o", "n", " ", "r", "e", "f", "u", "s", "e", "d">>,
      <<"C", "O", "N", "N", "E", "C", "T", "I", "O", "N", " ", "R", "E", "F", "U", "S", "E", "D">>,
      <<"T", "i", "m", "e", "o", "u", "t">>,
      <<"t", "i", "m", "e", "d", " ", "o", "u", "t">>,
      <<"H", "o", "s", "t", " ", "U", "n", "r", "e", "a", "c", "h", "a", "b", "l", "e">>,
      <<"p", "a", "c", "k", "e", "t", " ", "F", "i", "l", "t", "e", "r", "e", "d">>,
      <<"r", "e", "f", "u", "s", "e">>,
      <<"b", "r", "o", "k", "e", "n", " ", "p", "i", "p", "e">> }

\* Messages of one word, or of two words joined by ": "
ErrorMessages ==
    ErrorWords \cup {a \o <<":", " ">> \o b : a \in ErrorWords, b \in ErrorWords}

(***************************************************************************)
(* Response matching (Prober::match_response, Prober::try_probe).          *)
(*                                                                         *)
(* Option<T> is a sequence of length 0 (None) or 1 (Some).                 *)
(* Patterns are taken from a small dialect of the regex crate's syntax: an *)
(* optional leading "^" followed by literal characters; a pattern with an  *)
(* unclosed "(" does not compile.                                          *)
(***************************************************************************)
None == <<>>
Some(v) == <<v>>

\* Regex::new(pattern).is_ok()
RegexCompiles(p) ==
    Cardinality({i \in 1..Len(p) : p[i] = "("}) =
        Cardinality({i \in 1..Len(p) : p[i] = ")"})

\* regex.captures(response): None, or the groups of the leftmost match
\* (group 0 is the whole match)
RegexCaptures(p, response) ==
    LET anchored == Len(p) > 0 /\ p[1] = "^"
        lit == IF anchored THEN Tail(p) ELSE p
        starts == {i \in 0..(Len(response) - Len(lit)) :
                     /\ (anchored => i = 0)
                     /\ \A j \in 1..Len(lit) : response[i + j] = lit[j]}
    IN  IF starts = {} THEN None ELSE Some(<<Some(lit)>>)

DigitText == <<"0", "1", "2", "3", "4", "5", "6", "7", "8", "9">>

\* format!("{}", n) for n >= 0
RECURSIVE DecimalText(_)
DecimalText(n) ==
    IF n < 10 THEN <<DigitText[n + 1]>>
    ELSE DecimalText(n \div 10) \o <<DigitText[(n % 10) + 1]>>

\* str::replace(from, to): every non-overlapping occurrence, left to right
RECURSIVE Replace(_, _, _)
Replace(s, from, to) ==
    IF Len(s) < Len(from) THEN s
    ELSE IF SubSeq(s, 1, Len(from)) = from
         THEN to \o Replace(SubSeq(s, Len(from) + 1, Len(s)), from, to)
    ELSE <<s[1]>> \o Replace(Tail(s), from, to)

\* for i in 1..captures.len() { if let Some(capture) = captures.get(i) ... }
RECURSIVE SubstituteFrom(_, _, _)
SubstituteFrom(result, i, captures) ==
    IF i >= Len(captures) THEN result
    ELSE SubstituteFrom(
            IF captures[i + 1] # None
            THEN Replace(result, <<"$">> \o DecimalText(i), captures[i + 1][1])
            ELSE result,
            i + 1, captures)

\* Prober::process_version_field
process_version_field(value, captures) == SubstituteFrom(value, 1, captures)

\* One optional field of ServiceInfo from the version_info map
VersionField(version_info, key, captures) ==
    IF key \in DOMAIN version_info
    THEN Some(process_version_field(version_info[key], captures))
    ELSE None

\* Prober::match_response
match_response(response, match_entry) ==
    IF RegexCompiles(match_entry.pattern)
       /\ RegexCaptures(match_entry.pattern, response) # None
    THEN LET captures == RegexCaptures(match_entry.pattern, response)[1] IN
         Some([ service |-> match_entry.service,
                version |-> VersionField(match_entry.version_info, "v", captures),
                product |-> VersionField(match_entry.version_info, "p", captures),
                extra_info |-> VersionField(match_entry.version_info, "i", captures),
                hostname |-> VersionField(match_entry.version_info, "h", captures),
                os_info |-> VersionField(match_entry.version_info, "o", captures),
                device_type |-> VersionField(match_entry.version_info, "d", captures),
                cpe |-> VersionField(match_entry.version_info, "cpe", captures),
                confidence |-> HardConfidence ])
    ELSE None

\* An evaluation that a pattern that does not compile brings to an end
RECURSIVE FirstMatchStopsOnError(_, _, _)
FirstMatchStopsOnError(response, entries, i) ==
    IF i > Len(entries) THEN None
    ELSE IF ~RegexCompiles(entries[i].pattern) THEN None
    ELSE IF match_response(response, entries[i]) # None
         THEN match_response(response, entries[i])
    ELSE FirstMatchStopsOnError(response, entries, i + 1)

\* for match_entry in &list { if let Some(..) = match_response(..) { return } }
RECURSIVE FirstMatch(_, _, _)
FirstMatch(response, entries, i) ==
    IF i > Len(entries) THEN None
    ELSE IF match_response(response, entries[i]) # None
         THEN match_response(response, entries[i])
    ELSE FirstMatch(response, entries, i + 1)

\* A matching that forgets to lower the confidence of a soft match
MatchProbeSoftKeepsConfidence(probe, response) ==
    IF FirstMatch(response, probe.matches, 1) # None
    THEN FirstMatch(response, probe.matches, 1)
    ELSE FirstMatch(response, probe.soft_matches, 1)

\* The tail of Prober::try_probe once a response has been read: hard
\* matches first, then soft matches with the confidence lowered
MatchProbe(probe, response) ==
    IF FirstMatch(response, probe.matches, 1) # None
    THEN FirstMatch(response, probe.matches, 1)
    ELSE IF FirstMatch(response, probe.soft_matches, 1) # None
         THEN Some([FirstMatch(response, probe.soft_matches, 1)[1]
                        EXCEPT !.confidence = SoftConfidence])
    ELSE None

\* ---- the match entries, probes and responses the matcher is exercised with
Pat_S == <<"S">>                \* matches a response containing S
Pat_StartH == <<"^", "H">>      \* matches a response starting with H
Pat_Unclosed == <<"(", "S">>    \* does not compile

NoVersionInfo == [k \in {} |-> <<>>]
SshVersionInfo ==
    [k \in {"v", "p"} |-> IF k = "v" THEN <<"$", "1">> ELSE <<"O", "p", "e", "n">>]

MatchEntries ==
    {[service |-> "ssh", pattern |-> p, version_info |-> SshVersionInfo] :
        p \in {Pat_S, Pat_StartH, Pat_Unclosed}}
    \cup
    {[service |-> "http", pattern |-> p, version_info |-> NoVersionInfo] :
        p \in {Pat_S, Pat_StartH, Pat_Unclosed}}

Responses ==
    { <<"S">>, <<"H">>, <<"S", "H">>, <<"H", "S">>, <<"x">>, <<"x", "H">> }

ProbeEntry(name, probe_string, matches, soft_matches, ports) ==
    [ protocol |-> "TCP", name |-> name, probe_string |-> probe_string,
      matches |-> matches, soft_matches |-> soft_matches, ports |-> ports ]

MatchProbes ==
    { ProbeEntry("NULL", <<>>, ms, ss, <<>>) :
        ms \in BoundedSeq(MatchEntries, MaxMatches),
        ss \in BoundedSeq(MatchEntries, MaxSoftMatches) }

(***************************************************************************)
(* The run: Scanner::exec, TCPScanner::exec, TCPScanner::syn_scan and its  *)
(* port tasks, Prober::probe_port, UDPScanner::exec.                       *)
(***************************************************************************)
IP1 == <<"1", "0", ".", "0", ".", "0", ".", "1">>
IP2 == <<"1", "0", ".", "0", ".", "0", ".", "2">>
IP3 == <<"1", "0", ".", "0", ".", "0", ".", "3">>
HostName == <<"h", "o", "s", "t">>

\* The texts that parse as an IpAddr, among the texts of the model
IPLiterals == {IP1, IP2, IP3}

\* utils::valid_ip
valid_ip(ip) == ip \in IPLiterals

\* [String]::join(sep)
RECURSIVE JoinText(_, _)
JoinText(items, sep) ==
    IF items = <<>> THEN <<>>
    ELSE IF Len(items) = 1 THEN items[1]
    ELSE items[1] \o sep \o JoinText(Tail(items), sep)

\* str::split(&str)
RECURSIVE SplitStrFrom(_, _, _, _)
SplitStrFrom(s, sep, cur, acc) ==
    IF s = <<>> THEN Append(acc, cur)
    ELSE IF Len(s) >= Len(sep) /\ SubSeq(s, 1, Len(sep)) = sep
         THEN SplitStrFrom(SubSeq(s, Len(sep) + 1, Len(s)), sep, <<>>, Append(acc, cur))
    ELSE SplitStrFrom(Tail(s), sep, Append(cur, s[1]), acc)

SplitStr(s, sep) == SplitStrFrom(s, sep, <<>>, <<>>)

CommaSpace == <<",", " ">>

\* DNSResolver::resolve_to_ip: Err (None) when the lookup fails or is empty,
\* else the addresses joined by ", "
resolve_to_ip(addrs) ==
    IF addrs = <<>> THEN None ELSE Some(JoinText(addrs, CommaSpace))

\* HashMap::insert
MapInsert(m, k, v) == [x \in (DOMAIN m) \cup {k} |-> IF x = k THEN v ELSE m[x]]

\* A resolution loop that scans every address a name resolves to
RECURSIVE ResolveTargetsAll(_, _, _, _, _)
ResolveTargetsAll(target, i, addrs, resolved, mapping) ==
    IF i > Len(target) THEN Some([targets |-> resolved, target_mapping |-> mapping])
    ELSE IF valid_ip(target[i])
         THEN ResolveTargetsAll(target, i + 1, addrs, Append(resolved, target[i]),
                                MapInsert(mapping, target[i], target[i]))
    ELSE IF resolve_to_ip(addrs) = None THEN None
    ELSE ResolveTargetsAll(target, i + 1, addrs, resolved \o addrs,
                           [x \in (DOMAIN mapping) \cup {addrs[k] : k \in 1..Len(addrs)} |->
                               IF \E k \in 1..Len(addrs) : addrs[k] = x
                               THEN target[i] ELSE mapping[x]])

\* A resolution loop that leaves out a target whose lookup fails
RECURSIVE ResolveTargetsSkipping(_, _, _, _, _)
ResolveTargetsSkipping(target, i, addrs, resolved, mapping) ==
    IF i > Len(target) THEN Some([targets |-> resolved, target_mapping |-> mapping])
    ELSE IF valid_ip(target[i])
         THEN ResolveTargetsSkipping(target, i + 1, addrs, Append(resolved, target[i]),
                                     MapInsert(mapping, target[i], target[i]))
    ELSE IF resolve_to_ip(addrs) = None
         THEN ResolveTargetsSkipping(target, i + 1, addrs, resolved, mapping)
    ELSE LET first_ip == Trim(SplitStr(resolve_to_ip(addrs)[1], CommaSpace)[1]) IN
         ResolveTargetsSkipping(target, i + 1, addrs, Append(resolved, first_ip),
                                MapInsert(mapping, first_ip, target[i]))

\* The resolution loop of TCPScanner::exec: None when a lookup fails (the ?
\* operator), else the targets and the mapping back to the original names
RECURSIVE ResolveTargets(_, _, _, _, _)
ResolveTargets(target, i, addrs, resolved, mapping) ==
    IF i > Len(target) THEN Some([targets |-> resolved, target_mapping |-> mapping])
    ELSE IF valid_ip(target[i])
         THEN ResolveTargets(target, i + 1, addrs, Append(resolved, target[i]),
                             MapInsert(mapping, target[i], target[i]))
    ELSE IF resolve_to_ip(addrs) = None THEN None
    ELSE LET first_ip == Trim(SplitStr(resolve_to_ip(addrs)[1], CommaSpace)[1]) IN
         IF valid_ip(first_ip)
         THEN ResolveTargets(target, i + 1, addrs, Append(resolved, first_ip),
                             MapInsert(mapping, first_ip, target[i]))
         ELSE ResolveTargets(target, i + 1, addrs, resolved, mapping)

\* A pool sized per target, as if every target had its own semaphore
PerTargetPermits(threads, ntargets) == threads * ntargets

\* A pool that is never created empty
AtLeastOnePermit(threads, ntargets) == IF threads = 0 THEN 1 ELSE threads

\* Semaphore::new(threads as usize): one pool for all targets
SemaphorePermits(threads, ntargets) == threads

\* A deadline arm whose state depends on what the other tasks are doing
DeadlineStateByLoad == IF permits = 0 THEN "Filtered" ELSE "Closed"

\* The Err(_) arm of the timeout around connect
DeadlineState == "Filtered"

PortResult(port, state, service) ==
    [port |-> DecimalText(port), state |-> state, service |-> service]

\* A task that keeps the port state probe_port reports
OpenPortResultFromProbe(port, probe_state, service_info) ==
    PortResult(port,
               CASE probe_state = "closed" -> "Closed"
                 [] probe_state = "filtered" -> "Filtered"
                 [] OTHER -> "Open",
               service_info)

\* The Ok(Ok(stream)) arm: the result is Open whatever probe_port reported
OpenPortResult(port, probe_state, service_info) ==
    PortResult(port, "Open", service_info)

\* A task that yields no result for a failed connect
NoResultOnFailure(port, state) == None

\* The Ok(Err(e)) and Err(_) arms: a result with the classified state
FailedPortResult(port, state) == Some(PortResult(port, state, None))

Str_T == <<"T", ":">>

\* port_spec.contains(&port_str) || port_spec.contains(&format!("T:{}", port))
PortListed(probe, port) ==
    \E k \in 1..Len(probe.ports) :
        \/ Contains(probe.ports[k], DecimalText(port))
        \/ Contains(probe.ports[k], Str_T \o DecimalText(port))

\* A selection that takes the probes listing the port whatever their protocol
get_relevant_probes_any_protocol(probes, port) ==
    LET ByPort(p) == PortListed(p, port)
        Common(p) == p.protocol = "TCP" /\ p.name \in {"GetRequest", "GenericLines"}
    IN  IF SelectSeq(probes.probes, ByPort) = <<>>
        THEN SelectSeq(probes.probes, Common)
        ELSE SelectSeq(probes.probes, ByPort)

\* Prober::get_relevant_probes
get_relevant_probes(probes, port) ==
    LET ByPort(p) == p.protocol = "TCP" /\ PortListed(p, port)
        Common(p) == p.protocol = "TCP" /\ p.name \in {"GetRequest", "GenericLines"}
    IN  IF SelectSeq(probes.probes, ByPort) = <<>>
        THEN SelectSeq(probes.probes, Common)
        ELSE SelectSeq(probes.probes, ByPort)

\* A detection that tries the port's probes first and NULL last
DetectSequenceNullLast(probes, port) ==
    LET IsNull(p) == p.name = "NULL" /\ p.protocol = "TCP" IN
    get_relevant_probes(probes, port)
    \o (IF SelectSeq(probes.probes, IsNull) = <<>> THEN <<>>
        ELSE <<SelectSeq(probes.probes, IsNull)[1]>>)

\* The probes Prober::detect_service tries, in order: the first TCP probe
\* named NULL, then the relevant ones
DetectSequence(probes, port) ==
    LET IsNull(p) == p.name = "NULL" /\ p.protocol = "TCP" IN
    (IF SelectSeq(probes.probes, IsNull) = <<>> THEN <<>>
     ELSE <<SelectSeq(probes.probes, IsNull)[1]>>)
    \o get_relevant_probes(probes, port)

\* The I/O part of Prober::try_probe: whether the attempt gets as far as
\* the match loops. Only an elapsed write deadline ends the attempt at the
\* write (if let Err(_) = timeout(..).await): a write error inside the
\* deadline is Ok(Err(e)) and falls through to the read.
ReachesMatching(write, read) ==
    /\ write # "timeout"
    /\ read = "data"

\* Prober::try_probe
try_probe(probe, write, read, response) ==
    IF ReachesMatching(write, read) THEN MatchProbe(probe, response) ELSE None

\* ---- the inputs of a run

RunNullProbe ==
    ProbeEntry("NULL", <<>>,
        <<[service |-> "ssh", pattern |-> Pat_S, version_info |-> SshVersionInfo]>>,
        <<>>, <<>>)
RunGetRequest ==
    ProbeEntry("GetRequest", <<"G", "E", "T", "\\", "n">>,
        <<[service |-> "http", pattern |-> Pat_StartH, version_info |-> NoVersionInfo]>>,
        <<[service |-> "http", pattern |-> Pat_Unclosed, version_info |-> NoVersionInfo]>>,
        <<>>)
RunUdpProbe ==
    [ protocol |-> "UDP", name |-> "DNSStatusRequest", probe_string |-> <<"\\", "0">>,
      matches |-> <<>>, soft_matches |-> <<>>, ports |-> << <<"2", "2">> >> ]

RunDB == [excludes |-> <<>>, probes |-> <<RunNullProbe, RunUdpProbe, RunGetRequest>>]

\* Probes that list ports: GenericLines for 80, HTTPOptions for 80 and 22
RunGenericLines ==
    ProbeEntry("GenericLines", <<"\\", "r", "\\", "n">>, <<>>, <<>>,
        << <<"8", "0">> >>)
RunHTTPOptions ==
    ProbeEntry("HTTPOptions", <<"O">>,
        <<[service |-> "http", pattern |-> Pat_StartH, version_info |-> NoVersionInfo]>>,
        <<>>,
        << <<"T", ":", "8", "0", ",", "2", "2">> >>)

\* A database whose NULL probe is not its first entry and in which every
\* scanned port has probes of its own
RunPortsDB ==
    [excludes |-> <<>>,
     probes |-> <<RunGenericLines, RunNullProbe, RunUdpProbe, RunHTTPOptions,
                  RunGetRequest>>]

RunResponses == { <<"H", "S">>, <<"H">>, <<"x">> }

RunPortTexts ==
    { <<>>,                         \* empty specification
      <<"2", "-", "1">>,            \* every token malformed
      <<"2", "2">>,
      <<"8", "0", ",", "8", "0">> } \* one port listed twice

RunTargetLists ==
    { <<IP1>>, <<IP1, IP2>>, <<HostName>>, <<IP1, HostName>> }

\* What the name lookup returns for HostName: nothing, one or two addresses
DnsAnswers == { <<>>, <<IP2>>, <<IP3, IP2>> }

\* Connect errors a port task meets: (kind, message)
RunConnectErrors ==
    { <<"ConnectionRefused", <<"C", "o", "n", "n", "e", "c", "t", "i", "o", "n", " ", "r", "e", "f", "u", "s", "e", "d">> >>,
      <<"Other", <<"T", "i", "m", "e", "o", "u", "t">> >> }

RunConfigs ==
    [ target : RunTargetLists, ports : RunPortTexts, tcp : BOOLEAN, udp : BOOLEAN,
      threads : 0..MaxThreads, service_detection : BOOLEAN ]

\* The environment of a run: what loading the probes file gives (None when
\* it cannot be read or parsed) and what the name lookup answers
RunEnvs == [ probes : {None, Some(RunDB), Some(RunPortsDB)}, dns : DnsAnswers ]

\* A port task before it runs. scan_conn is the stream of the classifying
\* connect (none, open, closed), io the connections bytes were written to
\* or read from, tried the try_probe calls that have returned; write, read
\* and response belong to the try_probe call in progress (after the task,
\* to its last one), last_write and last_read to the last call that returned
TaskInit ==
    [ pc |-> "pending", conn |-> "none", scan_conn |-> "none",
      probe_conn |-> "none", pi |-> 0,
      write |-> "none", read |-> "none", response |-> <<>>,
      last_write |-> "none", last_read |-> "none",
      io |-> {}, tried |-> <<>>, result |-> None ]

ScanInit ==
    [ pc |-> "spawned", port_list |-> <<>>, joined |-> 0,
      open_ports |-> <<>>, closed_ports |-> <<>>, filtered_ports |-> <<>>,
      result |-> None ]

UdpInit ==
    [ ports |-> <<>>, ti |-> 1, pi |-> 0, ip |-> <<>>, results |-> <<>>,
      outcomes |-> <<>>, attempts |-> <<>>, combined_results |-> <<>>, sent |-> 0 ]

IdleRun ==
    /\ config = [ target |-> <<>>, ports |-> <<>>, tcp |-> FALSE, udp |-> FALSE,
                  threads |-> 0, service_detection |-> FALSE ]
    /\ env = [ probes |-> None, dns |-> <<>> ]
    /\ exec_pc = "idle"
    /\ targets = <<>>
    /\ target_mapping = <<>>
    /\ permits = 0
    /\ scans = <<>>
    /\ tasks = <<>>
    /\ reports = <<>>
    /\ udp = UdpInit

(***************************************************************************)
(* Port texts the runs and the parser are exercised with.                  *)
(***************************************************************************)
PortAlphabet == {"1", "2", ",", "-", " ", "a", "+"}

\* "80,443,1000-1002"
Str_example == <<"8", "0", ",", "4", "4", "3", ",", "1", "0", "0", "0", "-", "1", "0", "0", "2">>

PortExamples ==
    { Str_example,
      <<"7", "0", "-", "6", "5">>,          \* reversed range
      <<"a", "b", "c">>,                    \* non-numeric
      <<"6", "5", "5", "3", "6">>,          \* above u16::MAX
      <<"6", "5", "5", "3", "5">>,          \* u16::MAX
      <<"6", "5", "5", "3", "4", "-", "6", "5", "5", "3", "5">>,
      <<"9", "-", "6", "5", "5", "3", "6">>,
      <<"1", "-", "2", "-", "3">>,          \* more than one hyphen
      <<"-", "8", "0">>,                    \* empty left side
      <<"8", "0", "-">>,                    \* empty right side
      <<" ", "2", "2", " ">>,
      <<"5", " ", "-", " ", "6">>,          \* blanks inside a range
      <<"0">>,
      <<"0", "0", "7">>,
      <<"2", "0", "-", "2", "2">>,
      <<"1", "-", "3", ",", "2", "-", "4">>,  \* overlapping ranges
      <<"8", "0", ",", "8", "0">> }

PortInputs == BoundedSeq(PortAlphabet, MaxLen) \cup PortExamples
PortInputsMore == BoundedSeq(PortAlphabet, MaxLenMore) \cup PortExamples

(***************************************************************************)
(* Specification of the port parser: the inputs are drawn in Init and one  *)
(* action applies parse_ports to them.                                     *)
(***************************************************************************)
IdlePorts ==
    /\ ports_str = <<>>
    /\ ports_more = <<>>
    /\ port_list = [done |-> FALSE, a |-> <<>>, b |-> <<>>, ab |-> <<>>]

IdleClassify ==
    /\ err_kind = "Other"
    /\ err_msg = <<>>
    /\ err_state = "none"

IdleMatch ==
    /\ m_probe = ProbeEntry("NULL", <<>>, <<>>, <<>>, <<>>)
    /\ m_response = <<>>
    /\ m_result = [done |-> FALSE, service |-> None]

IdleSubst ==
    /\ s_value = <<>>
    /\ s_captures = <<Some(<<>>)>>
    /\ s_result = [done |-> FALSE, text |-> <<>>]

IdleDecode ==
    /\ d_source = <<>>
    /\ d_bytes = [done |-> FALSE, bytes |-> <<>>]

IdleRelevant ==
    /\ r_probes = [excludes |-> <<>>, probes |-> <<>>]
    /\ r_port = 0
    /\ r_relevant = [done |-> FALSE, probes |-> <<>>]

IdleParse ==
    /\ nmap_content = <<>>
    /\ nmap_probes = [done |-> FALSE, db |-> [excludes |-> <<>>, probes |-> <<>>]]

InitPorts ==
    /\ IdleClassify
    /\ IdleMatch
    /\ IdleSubst
    /\ IdleDecode
    /\ IdleRelevant
    /\ IdleParse
    /\ IdleRun
    /\ ports_str \in PortInputs
    /\ ports_more \in PortInputsMore
    /\ port_list = [done |-> FALSE, a |-> <<>>, b |-> <<>>, ab |-> <<>>]

ParsePorts ==
    /\ ~port_list.done
    /\ port_list' = [ done |-> TRUE,
                      a |-> parse_ports(ports_str),
                      b |-> parse_ports(ports_more),
                      ab |-> parse_ports(ports_str \o <<",">> \o ports_more) ]
    /\ UNCHANGED <<ports_str, ports_more>>
    /\ UNCHANGED <<classVars, matchVars, substVars, decodeVars, relVars, parseVars, runVars>>

NextPorts == ParsePorts

SpecPorts == InitPorts /\ [][NextPorts]_vars

(***************************************************************************)
(* Specification of the connect-error classification: the error is drawn   *)
(* in Init and one action classifies it.                                   *)
(***************************************************************************)
InitClassify ==
    /\ IdlePorts
    /\ IdleMatch
    /\ IdleSubst
    /\ IdleDecode
    /\ IdleRelevant
    /\ IdleParse
    /\ IdleRun
    /\ err_kind \in ErrorKinds
    /\ err_msg \in ErrorMessages
    /\ err_state = "none"

Classify ==
    /\ err_state = "none"
    /\ err_state' = ClassifyConnectError(err_kind, err_msg)
    /\ UNCHANGED <<err_kind, err_msg>>
    /\ UNCHANGED <<portVars, matchVars, substVars, decodeVars, relVars, parseVars, runVars>>

NextClassify == Classify

SpecClassify == InitClassify /\ [][NextClassify]_vars

(***************************************************************************)
(* Specification of the matcher: a probe and a response are drawn in Init  *)
(* and one action evaluates the probe's rules on the response.             *)
(***************************************************************************)
InitMatch ==
    /\ IdlePorts
    /\ IdleClassify
    /\ IdleSubst
    /\ IdleDecode
    /\ IdleRelevant
    /\ IdleParse
    /\ IdleRun
    /\ m_probe \in MatchProbes
    /\ m_response \in Responses
    /\ m_result = [done |-> FALSE, service |-> None]

EvalMatches ==
    /\ ~m_result.done
    /\ m_result' = [done |-> TRUE, service |-> MatchProbe(m_probe, m_response)]
    /\ UNCHANGED <<m_probe, m_response>>
    /\ UNCHANGED <<portVars, classVars, substVars, decodeVars, relVars, parseVars, runVars>>

NextMatch == EvalMatches

SpecMatch == InitMatch /\ [][NextMatch]_vars

(***************************************************************************)
(* Specification of the version-template substitution: a template and the  *)
(* capture groups of a match are drawn in Init and one action substitutes. *)
(***************************************************************************)
SubstAlphabet == {"$", "0", "1", "2", "a"}

\* What a capture group holds: None when the group did not take part in the
\* match, else the text it matched
GroupTexts == {None, Some(<<"b">>), Some(<<"$", "2">>)}

WholeMatch == Some(<<"m">>)

\* A match of a pattern with ten groups: groups 1 to 9 matched c, group 10
\* matched t
TenGroups ==
    <<WholeMatch>> \o [i \in 1..10 |-> IF i = 10 THEN Some(<<"t">>) ELSE Some(<<"c">>)]

\* ^SSH-([\d.]+)- on SSH-2.0-OpenSSH_8.9
SshCaptures ==
    << Some(<<"S", "S", "H", "-", "2", ".", "0", "-">>), Some(<<"2", ".", "0">>) >>

SubstCaptures ==
    {<<WholeMatch>> \o g : g \in BoundedSeq(GroupTexts, MaxGroups)}
        \cup {TenGroups, SshCaptures}

InitSubst ==
    /\ IdlePorts
    /\ IdleClassify
    /\ IdleMatch
    /\ IdleDecode
    /\ IdleRelevant
    /\ IdleParse
    /\ IdleRun
    /\ s_value \in BoundedSeq(SubstAlphabet, MaxTemplateLen)
    /\ s_captures \in SubstCaptures
    /\ s_result = [done |-> FALSE, text |-> <<>>]

Substitute ==
    /\ ~s_result.done
    /\ s_result' = [done |-> TRUE, text |-> process_version_field(s_value, s_captures)]
    /\ UNCHANGED <<s_value, s_captures>>
    /\ UNCHANGED <<portVars, classVars, matchVars, decodeVars, relVars, parseVars, runVars>>

NextSubst == Substitute

SpecSubst == InitSubst /\ [][NextSubst]_vars

(***************************************************************************)
(* Escape decoding of a probe string. Bytes are the integers 0..255.       *)
(***************************************************************************)
\* The characters 0x20..0x7E in code order (0x60 is held by a name)
AsciiPrintable ==
    <<
       " ", "!", "\"", "#", "$", "%", "&", "'", "(", ")", "*", "+",
       ",", "-", ".", "/", "0", "1", "2", "3", "4", "5", "6", "7",
       "8", "9", ":", ";", "<", "=", ">", "?", "@", "A", "B", "C",
       "D", "E", "F", "G", "H", "I", "J", "K", "L", "M", "N", "O",
       "P", "Q", "R", "S", "T", "U", "V", "W", "X", "Y", "Z", "[",
       "\\", "]", "^", "_", "grave", "a", "b", "c", "d", "e", "f", "g",
       "h", "i", "j", "k", "l", "m", "n", "o", "p", "q", "r", "s",
       "t", "u", "v", "w", "x", "y", "z", "{", "|", "}", "~"
    >>

\* ch as u8, for the characters of the model
CharByte(ch) == 31 + (CHOOSE i \in 1..Len(AsciiPrintable) : AsciiPrintable[i] = ch)

HexLower == <<"0", "1", "2", "3", "4", "5", "6", "7", "8", "9", "a", "b", "c", "d", "e", "f">>
HexUpper == <<"0", "1", "2", "3", "4", "5", "6", "7", "8", "9", "A", "B", "C", "D", "E", "F">>

IsHexDigit(ch) == \E i \in 1..16 : HexLower[i] = ch \/ HexUpper[i] = ch

\* char::to_digit(16)
HexDigitVal(ch) == (CHOOSE i \in 1..16 : HexLower[i] = ch \/ HexUpper[i] = ch) - 1

\* u8::from_str_radix(&format!("{}{}", hex1, hex2), 16): None for Err. One
\* leading plus sign is accepted.
FromStrRadix16(hex1, hex2) ==
    IF IsHexDigit(hex1) /\ IsHexDigit(hex2)
    THEN Some(16 * HexDigitVal(hex1) + HexDigitVal(hex2))
    ELSE IF hex1 = "+" /\ IsHexDigit(hex2) THEN Some(HexDigitVal(hex2))
    ELSE None

\* chars.next().unwrap_or('0') at position i
NextOrZero(src, i) == IF i <= Len(src) THEN src[i] ELSE "0"

\* The while loop of Prober::decode_probe_string from position i
RECURSIVE DecodeFrom(_, _, _)
DecodeFrom(src, i, result) ==
    IF i > Len(src) THEN result
    ELSE IF src[i] = "\\" /\ i < Len(src)
    THEN CASE src[i + 1] = "n" -> DecodeFrom(src, i + 2, Append(result, 10))
           [] src[i + 1] = "r" -> DecodeFrom(src, i + 2, Append(result, 13))
           [] src[i + 1] = "t" -> DecodeFrom(src, i + 2, Append(result, 9))
           [] src[i + 1] = "0" -> DecodeFrom(src, i + 2, Append(result, 0))
           [] src[i + 1] = "\\" -> DecodeFrom(src, i + 2, Append(result, 92))
           [] src[i + 1] = "x" ->
                LET byte == FromStrRadix16(NextOrZero(src, i + 2), NextOrZero(src, i + 3))
                IN  DecodeFrom(src, i + 4,
                               IF byte # None THEN Append(result, byte[1]) ELSE result)
           [] OTHER -> DecodeFrom(src, i + 1, Append(result, CharByte(src[i])))
    ELSE DecodeFrom(src, i + 1, Append(result, CharByte(src[i])))

\* Prober::decode_probe_string
decode_probe_string(probe_string) == DecodeFrom(probe_string, 1, <<>>)

DecodeAlphabet == {"\\", "n", "0", "x", "4", "G"}

\* GET / HTTP/1.0\r\n\r\n as written in a probes file
Src_GetRequest ==
    <<"G", "E", "T", " ", "/", " ", "H", "T", "T", "P", "/", "1", ".", "0", "\\", "r", "\\", "n", "\\", "r", "\\", "n">>

Src_X41 == <<"\\", "x", "4", "1">>

DecodeExamples ==
    { Src_GetRequest, Src_X41,
      <<"\\", "r", "\\", "t">>,
      <<"\\", "x", "f", "F">>,
      <<"\\", "x", "Z", "Z">> }

InitDecode ==
    /\ IdlePorts
    /\ IdleClassify
    /\ IdleMatch
    /\ IdleSubst
    /\ IdleRelevant
    /\ IdleParse
    /\ IdleRun
    /\ d_source \in BoundedSeq(DecodeAlphabet, MaxSourceLen) \cup DecodeExamples
    /\ d_bytes = [done |-> FALSE, bytes |-> <<>>]

DecodeProbeString ==
    /\ ~d_bytes.done
    /\ d_bytes' = [done |-> TRUE, bytes |-> decode_probe_string(d_source)]
    /\ UNCHANGED d_source
    /\ UNCHANGED <<portVars, classVars, matchVars, substVars, relVars, parseVars, runVars>>

NextDecode == DecodeProbeString

SpecDecode == InitDecode /\ [][NextDecode]_vars

(***************************************************************************)
(* Relevant probes of a port (Prober::get_relevant_probes) on generated    *)
(* databases.                                                              *)
(***************************************************************************)
\* The ports lists of the generated probes: none, one that has 8 and 80 in
\* it, one that has T:8 and 8 but not 80, one that has neither
RelPortsLists ==
    { <<>>, << <<"8", "0">> >>, << <<"T", ":", "8">> >>, << <<"4", "4", "3">> >> }

RelProbes ==
    { [ProbeEntry(name, <<>>, <<>>, <<>>, ports) EXCEPT !.protocol = protocol] :
        name \in {"GetRequest", "GenericLines", "NULL"},
        protocol \in {"TCP", "UDP"},
        ports \in RelPortsLists }

RelPorts == {8, 80}

InitRelevant ==
    /\ IdlePorts
    /\ IdleClassify
    /\ IdleMatch
    /\ IdleSubst
    /\ IdleDecode
    /\ IdleParse
    /\ IdleRun
    /\ r_probes \in [excludes : {<<>>}, probes : BoundedSeq(RelProbes, MaxProbes)]
    /\ r_port \in RelPorts
    /\ r_relevant = [done |-> FALSE, probes |-> <<>>]

GetRelevantProbes ==
    /\ ~r_relevant.done
    /\ r_relevant' = [done |-> TRUE, probes |-> get_relevant_probes(r_probes, r_port)]
    /\ UNCHANGED <<r_probes, r_port>>
    /\ UNCHANGED <<portVars, classVars, matchVars, substVars, decodeVars, parseVars, runVars>>

NextRelevant == GetRelevantProbes

SpecRelevant == InitRelevant /\ [][NextRelevant]_vars

(***************************************************************************)
(* The probe loader (parse_nmap_probes_json). The content of the file is   *)
(* the sequence of its lines (content.lines()).                            *)
(***************************************************************************)
\* str::split_whitespace: the maximal runs of non-whitespace characters
RECURSIVE SplitWhitespaceFrom(_, _, _, _)
SplitWhitespaceFrom(s, i, cur, acc) ==
    IF i > Len(s) THEN (IF cur = <<>> THEN acc ELSE Append(acc, cur))
    ELSE IF IsSpace(s[i])
         THEN SplitWhitespaceFrom(s, i + 1, <<>>,
                                  IF cur = <<>> THEN acc ELSE Append(acc, cur))
    ELSE SplitWhitespaceFrom(s, i + 1, Append(cur, s[i]), acc)

SplitWhitespace(s) == SplitWhitespaceFrom(s, 1, <<>>, <<>>)

\* str::starts_with(&str)
StartsWith(s, prefix) ==
    Len(s) >= Len(prefix) /\ SubSeq(s, 1, Len(prefix)) = prefix

Str_space == <<" ">>

\* parts[from..].join(" ")
JoinFrom(parts, from) == JoinText(SubSeq(parts, from, Len(parts)), Str_space)

\* str::find(char) and str::rfind(char) as positions counted from 1, 0 for
\* None
Find(s, c) ==
    IF ContainsChar(s, c)
    THEN CHOOSE i \in 1..Len(s) : s[i] = c /\ \A j \in 1..(i - 1) : s[j] # c
    ELSE 0

RFind(s, c) ==
    IF ContainsChar(s, c)
    THEN CHOOSE i \in 1..Len(s) : s[i] = c /\ \A j \in (i + 1)..Len(s) : s[j] # c
    ELSE 0

\* The delimiter idiom of parse_probe_string, parse_match_line and
\* parse_version_field: the delimiter is the second character, start its
\* first and end its last position in the whole text; Some(text between
\* them) when they differ, None otherwise. The text has two characters at
\* least.
Delimited(text) ==
    LET delimiter == text[2]
        start == Find(text, delimiter)
        end == RFind(text, delimiter)
    IN  IF start # end THEN Some(SubSeq(text, start + 1, end - 1)) ELSE None

\* parse_probe_string
parse_probe_string(probe_part) ==
    IF Len(probe_part) > 2 /\ probe_part[1] = "q" /\ Delimited(probe_part) # None
    THEN Delimited(probe_part)[1]
    ELSE probe_part

Str_cpe == <<"c", "p", "e", ":">>

FieldTypes == {"p", "v", "i", "h", "o", "d"}

\* parse_version_field: Some(<<key, value>>) or None
parse_version_field(field) ==
    IF Len(field) < 3 THEN None
    ELSE IF field[1] \notin FieldTypes /\ ~StartsWith(field, Str_cpe) THEN None
    ELSE IF StartsWith(field, Str_cpe)
         THEN Some(<<"cpe", SubSeq(field, Len(Str_cpe) + 1, Len(field))>>)
    ELSE IF Delimited(field) # None THEN Some(<<field[1], Delimited(field)[1]>>)
    ELSE None

\* for part in &parts[3..] { .. version_info.insert(..) }
RECURSIVE InsertFields(_, _, _)
InsertFields(parts, i, version_info) ==
    IF i > Len(parts) THEN version_info
    ELSE LET field_info == parse_version_field(parts[i]) IN
         InsertFields(parts, i + 1,
                      IF field_info # None
                      THEN MapInsert(version_info, field_info[1][1], field_info[1][2])
                      ELSE version_info)

\* parse_match_line: the pattern is taken from the third whitespace token
parse_match_line(line) ==
    LET parts == SplitWhitespace(line) IN
    IF Len(parts) < 3 THEN None
    ELSE Some([ service |-> parts[2],
                pattern |-> IF Len(parts[3]) > 2 /\ parts[3][1] = "m"
                                  /\ Delimited(parts[3]) # None
                            THEN Delimited(parts[3])[1]
                            ELSE parts[3],
                version_info |-> InsertFields(parts, 4, <<>>) ])

\* u32::MAX and u8::MAX as decimal text
U32MaxText == <<"4", "2", "9", "4", "9", "6", "7", "2", "9", "5">>
U8MaxText == <<"2", "5", "5">>

\* Whether the digit text a, without leading zeros, is a number above the
\* digit text b
RECURSIVE DigitsAbove(_, _)
DigitsAbove(a, b) ==
    IF Len(a) # Len(b) THEN Len(a) > Len(b)
    ELSE IF a = <<>> THEN FALSE
    ELSE IF a[1] # b[1] THEN DigitVal(a[1]) > DigitVal(b[1])
    ELSE DigitsAbove(Tail(a), Tail(b))

RECURSIVE StripZeros(_)
StripZeros(d) == IF Len(d) > 1 /\ d[1] = "0" THEN StripZeros(Tail(d)) ELSE d

RECURSIVE DigitsValue(_, _, _)
DigitsValue(d, i, acc) ==
    IF i > Len(d) THEN acc ELSE DigitsValue(d, i + 1, acc * 10 + DigitVal(d[i]))

\* A parse that gives 0 for a text that is no number of the type
ParseUnsignedOrZero(s, maxText) ==
    LET d == IF Len(s) > 0 /\ s[1] = "+" THEN Tail(s) ELSE s IN
    IF d = <<>> THEN 0
    ELSE IF \E i \in 1..Len(d) : d[i] \notin DigitChars THEN 0
    ELSE IF DigitsAbove(StripZeros(d), maxText) THEN 0
    ELSE DigitsValue(StripZeros(d), 1, 0)

\* str::parse::<u32>() and str::parse::<u8>(): digits after at most one
\* leading "+", an error on anything else and on a value above the maximum
\* of the type
ParseUnsigned(s, maxText) ==
    LET d == IF Len(s) > 0 /\ s[1] = "+" THEN Tail(s) ELSE s IN
    IF d = <<>> THEN ParseErr
    ELSE IF \E i \in 1..Len(d) : d[i] \notin DigitChars THEN ParseErr
    ELSE IF DigitsAbove(StripZeros(d), maxText) THEN ParseErr
    ELSE DigitsValue(StripZeros(d), 1, 0)

\* ProbeEntry { protocol, name, probe_string, no_payload, .. } as the Probe
\* arm builds it
NewProbeEntry(protocol, name, probe_string, no_payload) ==
    [ protocol |-> protocol, name |-> name, probe_string |-> probe_string,
      no_payload |-> no_payload, matches |-> <<>>, soft_matches |-> <<>>,
      ports |-> <<>>, ssl_ports |-> <<>>, total_wait_ms |-> None,
      tcp_wrapped_ms |-> None, rarity |-> None, fallback |-> None ]

Str_Exclude == <<"E", "x", "c", "l", "u", "d", "e">>
Str_Probe == <<"P", "r", "o", "b", "e">>
Str_match == <<"m", "a", "t", "c", "h">>
Str_softmatch == <<"s", "o", "f", "t", "m", "a", "t", "c", "h">>
Str_ports == <<"p", "o", "r", "t", "s">>
Str_sslports == <<"s", "s", "l", "p", "o", "r", "t", "s">>
Str_totalwaitms == <<"t", "o", "t", "a", "l", "w", "a", "i", "t", "m", "s">>
Str_tcpwrappedms == <<"t", "c", "p", "w", "r", "a", "p", "p", "e", "d", "m", "s">>
Str_rarity == <<"r", "a", "r", "i", "t", "y">>
Str_fallback == <<"f", "a", "l", "l", "b", "a", "c", "k">>
Str_no_payload == <<"n", "o", "-", "p", "a", "y", "l", "o", "a", "d">>

\* The parser before the first line: nmap_probes and current_probe
ParserInit == [ excludes |-> <<>>, probes |-> <<>>, current_probe |-> None ]

\* A Probe arm that opens a probe whatever the number of tokens, with empty
\* text for the tokens that are missing
ProbeArmAlwaysOpens(st, parts) ==
    LET saved == IF st.current_probe # None
                 THEN [st EXCEPT !.probes = Append(@, st.current_probe[1]),
                                 !.current_probe = None]
                 ELSE st
    IN  [saved EXCEPT !.current_probe =
            Some(NewProbeEntry(IF Len(parts) >= 2 THEN parts[2] ELSE <<>>,
                               IF Len(parts) >= 3 THEN parts[3] ELSE <<>>,
                               parse_probe_string(JoinFrom(parts, 4)),
                               \E k \in 1..Len(parts) : parts[k] = Str_no_payload))]

\* The "Probe" arm: the probe in progress is pushed, and a new one is
\* opened when the line has four tokens at least
ProbeArm(st, parts) ==
    LET saved == IF st.current_probe # None
                 THEN [st EXCEPT !.probes = Append(@, st.current_probe[1]),
                                 !.current_probe = None]
                 ELSE st
    IN  IF Len(parts) >= 4
        THEN [saved EXCEPT !.current_probe =
                Some(NewProbeEntry(parts[2], parts[3],
                                   parse_probe_string(JoinFrom(parts, 4)),
                                   \E k \in 1..Len(parts) : parts[k] = Str_no_payload))]
        ELSE saved

\* Arms that, with no probe in progress, add a ports directive to the probe
\* stored last
CurrentProbeArmOnStored(st, line, parts) ==
    IF parts[1] = Str_ports /\ Len(parts) > 1
    THEN IF st.current_probe # None
         THEN [st EXCEPT !.current_probe =
                 Some([st.current_probe[1] EXCEPT !.ports = Append(@, JoinFrom(parts, 2))])]
         ELSE IF st.probes # <<>>
         THEN [st EXCEPT !.probes[Len(st.probes)].ports = Append(@, JoinFrom(parts, 2))]
         ELSE st
    ELSE st

\* The arms that change the probe in progress: nothing happens without one
CurrentProbeArm(st, line, parts) ==
    IF st.current_probe = None THEN st
    ELSE LET probe == st.current_probe[1] IN
    IF parts[1] = Str_match THEN
        IF parse_match_line(line) # None
        THEN [st EXCEPT !.current_probe =
                Some([probe EXCEPT !.matches = Append(@, parse_match_line(line)[1])])]
        ELSE st
    ELSE IF parts[1] = Str_softmatch THEN
        IF parse_match_line(line) # None
        THEN [st EXCEPT !.current_probe =
                Some([probe EXCEPT !.soft_matches = Append(@, parse_match_line(line)[1])])]
        ELSE st
    ELSE IF parts[1] = Str_ports THEN
        IF Len(parts) > 1
        THEN [st EXCEPT !.current_probe =
                Some([probe EXCEPT !.ports = Append(@, JoinFrom(parts, 2))])]
        ELSE st
    ELSE IF parts[1] = Str_sslports THEN
        IF Len(parts) > 1
        THEN [st EXCEPT !.current_probe =
                Some([probe EXCEPT !.ssl_ports = Append(@, JoinFrom(parts, 2))])]
        ELSE st
    ELSE IF parts[1] = Str_totalwaitms THEN
        IF Len(parts) > 1 /\ ParseUnsigned(parts[2], U32MaxText) # ParseErr
        THEN [st EXCEPT !.current_probe =
                Some([probe EXCEPT !.total_wait_ms = Some(ParseUnsigned(parts[2], U32MaxText))])]
        ELSE st
    ELSE IF parts[1] = Str_tcpwrappedms THEN
        IF Len(parts) > 1 /\ ParseUnsigned(parts[2], U32MaxText) # ParseErr
        THEN [st EXCEPT !.current_probe =
                Some([probe EXCEPT !.tcp_wrapped_ms = Some(ParseUnsigned(parts[2], U32MaxText))])]
        ELSE st
    ELSE IF parts[1] = Str_rarity THEN
        IF Len(parts) > 1 /\ ParseUnsigned(parts[2], U8MaxText) # ParseErr
        THEN [st EXCEPT !.current_probe =
                Some([probe EXCEPT !.rarity = Some(ParseUnsigned(parts[2], U8MaxText))])]
        ELSE st
    ELSE IF parts[1] = Str_fallback THEN
        IF Len(parts) > 1
        THEN [st EXCEPT !.current_probe =
                Some([probe EXCEPT !.fallback = Some(JoinFrom(parts, 2))])]
        ELSE st
    ELSE st

\* One turn of the while loop: the line is trimmed, comments and empty
\* lines are skipped, the first token selects the arm
ParseLine(st, raw) ==
    LET line == Trim(raw)
        parts == SplitWhitespace(line)
    IN  IF line = <<>> \/ line[1] = "#" THEN st
        ELSE IF parts = <<>> THEN st
        ELSE IF parts[1] = Str_Exclude THEN
            IF Len(parts) > 1
            THEN [st EXCEPT !.excludes = Append(@, JoinFrom(parts, 2))]
            ELSE st
        ELSE IF parts[1] = Str_Probe THEN ProbeArm(st, parts)
        ELSE CurrentProbeArm(st, line, parts)

RECURSIVE ParseLines(_, _, _)
ParseLines(lines, i, st) ==
    IF i > Len(lines) THEN st
    ELSE ParseLines(lines, i + 1, ParseLine(st, lines[i]))

\* parse_nmap_probes_json: the NmapProbes value it serializes, the probe in
\* progress at the end of the input included
parse_nmap_probes_json(lines) ==
    LET st == ParseLines(lines, 1, ParserInit) IN
    [ excludes |-> st.excludes,
      probes |-> IF st.current_probe # None
                 THEN Append(st.probes, st.current_probe[1])
                 ELSE st.probes ]

\* ---- the inputs of the loader

Line_ProbeNull == <<"P", "r", "o", "b", "e", " ", "T", "C", "P", " ", "N", "U", "L", "L", " ", "q", "|", "|">>
Line_ProbeA == <<"P", "r", "o", "b", "e", " ", "T", "C", "P", " ", "A", " ", "q", "|", "\\", "x", "4", "1", "|">>
Line_ProbeShort == <<"P", "r", "o", "b", "e", " ", "U", "D", "P", " ", "B">>
Line_Match == <<"m", "a", "t", "c", "h", " ", "s", "s", "h", " ", "m", "/", "^", "S", "/", " ", "p", "/", "O", "/">>
Line_SoftMatch == <<"s", "o", "f", "t", "m", "a", "t", "c", "h", " ", "f", "t", "p", " ", "m", "|", "^", "2", "|", "i">>
Line_Ports == <<"p", "o", "r", "t", "s", " ", "2", "2", ",", "8", "0">>
Line_SslPorts == <<"s", "s", "l", "p", "o", "r", "t", "s", " ", "4", "4", "3">>
Line_Fallback == <<"f", "a", "l", "l", "b", "a", "c", "k", " ", "A">>
Line_Rarity == <<"r", "a", "r", "i", "t", "y", " ", "3", "0", "0">>
Line_TotalWait == <<"t", "o", "t", "a", "l", "w", "a", "i", "t", "m", "s", " ", "6", "0">>
Line_Comment == <<"#", " ", "c">>

Line_RarityValid == <<"r", "a", "r", "i", "t", "y", " ", "9">>
Line_TotalWaitText == <<"t", "o", "t", "a", "l", "w", "a", "i", "t", "m", "s", " ", "x">>
Line_TcpWrapped == <<"t", "c", "p", "w", "r", "a", "p", "p", "e", "d", "m", "s", " ", "-", "1">>
Line_Unknown == <<"F", "o", "o", " ", "1">>
Line_Blank == <<" ">>

LinePool ==
    { Line_ProbeNull, Line_ProbeA, Line_ProbeShort, Line_Match, Line_SoftMatch,
      Line_Ports, Line_SslPorts, Line_Fallback, Line_Comment }

\* Files of pool lines
FileInputs == BoundedSeq(LinePool, MaxLines)

\* Files of the directives with an integer value, valid and not
ValueLinePool ==
    { Line_ProbeNull, Line_ProbeShort, Line_TotalWait, Line_TotalWaitText,
      Line_TcpWrapped, Line_Rarity, Line_RarityValid }
ValueFileInputs == BoundedSeq(ValueLinePool, MaxLines)

\* Files with the lines the loader passes over: comments, blank lines,
\* unknown directives, directives outside a probe
SkippedLinePool ==
    { Line_ProbeNull, Line_ProbeShort, Line_Ports, Line_Match, Line_Comment,
      Line_Blank, Line_Unknown }
SkippedFileInputs == BoundedSeq(SkippedLinePool, MaxLines)

\* One Probe line with a generated probestring
ProbePrefix == <<"P", "r", "o", "b", "e", " ", "T", "C", "P", " ", "N", " ">>
ProbeStringAlphabet == {"q", "|", " ", "a"}
ProbeLineInputs ==
    { <<ProbePrefix \o text>> : text \in BoundedSeq(ProbeStringAlphabet, MaxProbeStringLen) }

\* A Probe line followed by a match line with a generated pattern clause,
\* alone or followed by a version field
MatchPrefix == <<"m", "a", "t", "c", "h", " ", "s", " ">>
ClauseAlphabet == {"m", "/", " ", "a"}
FieldSuffix == <<" ", "p", "/", "x", "/">>
MatchLineInputs ==
    { <<Line_ProbeNull, MatchPrefix \o clause \o suffix>> :
        clause \in BoundedSeq(ClauseAlphabet, MaxClauseLen),
        suffix \in {<<>>, FieldSuffix} }

\* A Probe line followed by a match line with the field p/x/ and one more
\* token: a tag (two known ones, an unknown one, cpe:) and generated text
FieldLinePrefix == <<"m", "a", "t", "c", "h", " ", "s", " ", "m", "/", "a", "/", " ", "p", "/", "x", "/", " ">>
FieldTags == { <<"p">>, <<"v">>, <<"x">>, Str_cpe }
FieldBodyAlphabet == {"/", "a"}
FieldLineInputs ==
    { <<Line_ProbeNull, FieldLinePrefix \o tag \o body>> :
        tag \in FieldTags,
        body \in BoundedSeq(FieldBodyAlphabet, MaxFieldLen) }

InitParse ==
    /\ IdlePorts
    /\ IdleClassify
    /\ IdleMatch
    /\ IdleSubst
    /\ IdleDecode
    /\ IdleRelevant
    /\ IdleRun
    /\ nmap_content \in FileInputs \cup ValueFileInputs \cup SkippedFileInputs
                          \cup ProbeLineInputs \cup MatchLineInputs
                          \cup FieldLineInputs
    /\ nmap_probes = [done |-> FALSE, db |-> [excludes |-> <<>>, probes |-> <<>>]]

ParseNmapProbes ==
    /\ ~nmap_probes.done
    /\ nmap_probes' = [done |-> TRUE, db |-> parse_nmap_probes_json(nmap_content)]
    /\ UNCHANGED nmap_content
    /\ UNCHANGED <<portVars, classVars, matchVars, substVars, decodeVars, relVars, runVars>>

NextParse == ParseNmapProbes

SpecParse == InitParse /\ [][NextParse]_vars

(***************************************************************************)
(* Specification of a run of the scanner.                                  *)
(***************************************************************************)
Init ==
    /\ IdlePorts
    /\ IdleClassify
    /\ IdleMatch
    /\ IdleSubst
    /\ IdleDecode
    /\ IdleRelevant
    /\ IdleParse
    /\ config \in RunConfigs
    /\ env \in RunEnvs
    \* the probes file is read only with service detection on, the name
    \* lookup only for a host name: one environment stands for all otherwise
    /\ (env.probes # None => config.service_detection /\ config.tcp /\ ~config.udp)
    /\ (env.dns # <<>> => \E i \in 1..Len(config.target) : ~valid_ip(config.target[i]))
    \* runs with service detection are generated for one target
    /\ (config.service_detection => Len(config.target) = 1)
    /\ exec_pc = "start"
    /\ targets = <<>>
    /\ target_mapping = <<>>
    /\ permits = 0
    /\ scans = <<>>
    /\ tasks = <<>>
    /\ reports = <<>>
    /\ udp = UdpInit

pureVars == <<portVars, classVars, matchVars, substVars, decodeVars, relVars, parseVars>>

\* An exec that looks at the tcp flag first
OrchestratorTcpFirst(cfg) ==
    IF cfg.tcp THEN "tcp" ELSE IF cfg.udp THEN "udp" ELSE "none"

\* if self.config.udp { UDPScanner } else if self.config.tcp { TCPScanner }
Orchestrator(cfg) ==
    IF cfg.udp THEN "udp" ELSE IF cfg.tcp THEN "tcp" ELSE "none"

\* Scanner::exec with neither flag set: nothing runs
ScannerExecNone ==
    /\ exec_pc = "start"
    /\ Orchestrator(config) = "none"
    /\ exec_pc' = "done_ok"
    /\ UNCHANGED <<config, env, targets, target_mapping, permits, scans, tasks, reports, udp>>
    /\ UNCHANGED pureVars

\* Scanner::exec -> TCPScanner::exec up to the spawning of one syn_scan per
\* resolved target
ScannerExecTcp ==
    /\ exec_pc = "start"
    /\ Orchestrator(config) = "tcp"
    /\ LET r == ResolveTargets(config.target, 1, env.dns, <<>>, <<>>) IN
       IF r = None
       THEN /\ exec_pc' = "done_err"
            /\ UNCHANGED <<targets, target_mapping, permits, scans, tasks>>
       ELSE /\ targets' = r[1].targets
            /\ target_mapping' = r[1].target_mapping
            /\ permits' = SemaphorePermits(config.threads, Len(r[1].targets))
            /\ scans' = [t \in 1..Len(r[1].targets) |-> ScanInit]
            /\ tasks' = [t \in 1..Len(r[1].targets) |-> <<>>]
            /\ exec_pc' = IF r[1].targets = <<>> THEN "done_ok" ELSE "tcp_collect"
    /\ UNCHANGED <<config, env, reports, udp>>
    /\ UNCHANGED pureVars

EmptyScanResult ==
    [open_ports |-> <<>>, closed_ports |-> <<>>, filtered_ports |-> <<>>]

\* TCPScanner::syn_scan up to the spawning of the port tasks
SynScanStart(t) ==
    /\ exec_pc = "tcp_collect"
    /\ scans[t].pc = "spawned"
    /\ LET parsed == parse_ports(config.ports) IN
       IF parsed = <<>>
       THEN /\ scans' = [scans EXCEPT ![t].pc = "returned",
                                      ![t].result = Some(EmptyScanResult)]
            /\ UNCHANGED tasks
       ELSE /\ scans' = [scans EXCEPT ![t].pc = "joining", ![t].port_list = parsed]
            /\ tasks' = [tasks EXCEPT ![t] = [i \in 1..Len(parsed) |-> TaskInit]]
    /\ UNCHANGED <<config, env, exec_pc, targets, target_mapping, permits, reports, udp>>
    /\ UNCHANGED pureVars

\* sem_clone.acquire().await
AcquirePermit(t, i) ==
    /\ tasks[t][i].pc = "pending"
    /\ permits > 0
    /\ permits' = permits - 1
    /\ tasks' = [tasks EXCEPT ![t][i].pc = "connecting"]
    /\ UNCHANGED <<config, env, exec_pc, targets, target_mapping, scans, reports, udp>>
    /\ UNCHANGED pureVars

\* A port task that ends without giving its permit back
KeepsPermit(available) == available

\* _permit going out of scope at the end of the port task's async block:
\* the permit goes back to global_semaphore
DropPermit(available) == available + 1

\* The end of a port task: its result; the stream of the scan connection,
\* if one was opened, is dropped here at the latest
Finished(task, result) ==
    [task EXCEPT !.pc = "done", !.result = result,
                 !.scan_conn = IF @ = "open" THEN "closed" ELSE @]

\* A task that probes every port it finds open
ProberAlwaysEnabled(cfg) == TRUE

\* let prober_enabled = config.service_detection
ProberEnabled(cfg) == cfg.service_detection

\* A deadline that runs from the spawning of the task
DeadlineFromSpawn(task) == task.pc \in {"pending", "connecting"}

\* The task is at timeout(..connect..).await, reached after acquire().await:
\* the deadline of the connect is running
DeadlineRunning(task) == task.pc = "connecting"

\* timeout(Duration::from_millis(timeout), TcpStream::connect(..)).await
ConnectResolves(t, i) ==
    /\ DeadlineRunning(tasks[t][i])
    /\ LET port == scans[t].port_list[i]
           task == tasks[t][i]
       IN
       \/ /\ ProberEnabled(config)
          /\ tasks' = [tasks EXCEPT ![t][i] =
                          [task EXCEPT !.conn = "ok", !.scan_conn = "open",
                                       !.pc = "probe_connecting"]]
          /\ UNCHANGED permits
       \/ /\ ~ProberEnabled(config)
          /\ tasks' = [tasks EXCEPT ![t][i] =
                          Finished([task EXCEPT !.conn = "ok", !.scan_conn = "open"],
                                   Some(OpenPortResult(port, "none", None)))]
          /\ permits' = DropPermit(permits)
       \/ /\ tasks' = [tasks EXCEPT ![t][i] =
                          Finished([task EXCEPT !.conn = "deadline"],
                                   FailedPortResult(port, DeadlineState))]
          /\ permits' = DropPermit(permits)
       \/ \E e \in RunConnectErrors :
          /\ tasks' = [tasks EXCEPT ![t][i] =
                          Finished([task EXCEPT !.conn = e[1]],
                                   FailedPortResult(port, ClassifyConnectError(e[1], e[2])))]
          /\ permits' = DropPermit(permits)
    /\ UNCHANGED <<config, env, exec_pc, targets, target_mapping, scans, reports, udp>>
    /\ UNCHANGED pureVars

\* A prober that talks over the stream the port task already holds
ProbeOverScanConnection == "scan"

\* let mut stream = .. TcpStream::connect(socket_addr) in Prober::probe_port:
\* detect_service and grab_banner get this stream, a connection of their own
ProbeConnection == "probe"

\* The entry of Prober::try_probe for the k-th probe of the sequence: the
\* task goes to timeout(stream.write_all(..)).await when the probe has a
\* payload, else straight to timeout(stream.read(..)).await. write, read
\* and response are those of the attempt in progress
StartAttempt(task, seq, k) ==
    [task EXCEPT !.pi = k, !.write = "none", !.read = "none", !.response = <<>>,
                 !.pc = IF seq[k].probe_string = <<>> THEN "reading" ELSE "writing"]

\* Prober::probe_port: the connect of the probing connection, then the
\* choice between detect_service and grab_banner
ProbeConnectResolves(t, i) ==
    /\ tasks[t][i].pc = "probe_connecting"
    /\ LET port == scans[t].port_list[i]
           task == tasks[t][i]
       IN
       \/ \E failed \in {"err", "timeout"} :
          /\ tasks' = [tasks EXCEPT ![t][i] =
                          Finished([task EXCEPT !.probe_conn = failed],
                                   Some(OpenPortResult(port,
                                        IF failed = "err" THEN "closed" ELSE "filtered",
                                        None)))]
          /\ permits' = DropPermit(permits)
       \/ /\ env.probes = None
          /\ tasks' = [tasks EXCEPT ![t][i] =
                          [task EXCEPT !.probe_conn = "ok", !.pc = "banner"]]
          /\ UNCHANGED permits
       \/ /\ env.probes # None
          /\ DetectSequence(env.probes[1], port) # <<>>
          /\ tasks' = [tasks EXCEPT ![t][i] =
                          StartAttempt([task EXCEPT !.probe_conn = "ok"],
                                       DetectSequence(env.probes[1], port), 1)]
          /\ UNCHANGED permits
       \/ /\ env.probes # None
          /\ DetectSequence(env.probes[1], port) = <<>>
          /\ tasks' = [tasks EXCEPT ![t][i] =
                          Finished([task EXCEPT !.probe_conn = "ok"],
                                   Some(OpenPortResult(port, "open", None)))]
          /\ permits' = DropPermit(permits)
    /\ UNCHANGED <<config, env, exec_pc, targets, target_mapping, scans, reports, udp>>
    /\ UNCHANGED pureVars

\* A fallback that reports the banner it read as the service of the port
GrabBannerAsService(t, i) ==
    /\ tasks[t][i].pc = "banner"
    /\ \E read \in {"data", "err", "timeout", "eof"} :
          tasks' = [tasks EXCEPT ![t][i] =
                       Finished([tasks[t][i] EXCEPT !.io = @ \cup {ProbeConnection}],
                                Some(OpenPortResult(scans[t].port_list[i], "open",
                                        IF read = "data"
                                        THEN Some([service |-> "banner", confidence |-> 0])
                                        ELSE None)))]
    /\ permits' = DropPermit(permits)
    /\ UNCHANGED <<config, env, exec_pc, targets, target_mapping, scans, reports, udp>>
    /\ UNCHANGED pureVars

\* Prober::grab_banner: the banner goes into ProbeResult.banner, which the
\* port task does not read
GrabBanner(t, i) ==
    /\ tasks[t][i].pc = "banner"
    /\ \E read \in {"data", "err", "timeout", "eof"} :
          tasks' = [tasks EXCEPT ![t][i] =
                       Finished([tasks[t][i] EXCEPT !.io = @ \cup {ProbeConnection}],
                                Some(OpenPortResult(scans[t].port_list[i], "open", None)))]
    /\ permits' = DropPermit(permits)
    /\ UNCHANGED <<config, env, exec_pc, targets, target_mapping, scans, reports, udp>>
    /\ UNCHANGED pureVars

\* A detection that goes through every probe whatever the attempts return
NeverStopsDetection(service_info) == FALSE

\* if let Some(service_info) = self.try_probe(..).await { return Some(..) }
StopsDetection(service_info) == service_info # None

\* What detect_service does with what a try_probe call returned: return on
\* a service, the next probe, or None after the last one. attempted is the
\* task with the attempt recorded
AfterAttempt(t, i, attempted, service_info) ==
    LET port == scans[t].port_list[i]
        seq == DetectSequence(env.probes[1], port)
    IN
    IF StopsDetection(service_info)
    THEN /\ tasks' = [tasks EXCEPT ![t][i] =
                         Finished(attempted, Some(OpenPortResult(port, "open", service_info)))]
         /\ permits' = DropPermit(permits)
    ELSE IF attempted.pi < Len(seq)
    THEN /\ tasks' = [tasks EXCEPT ![t][i] = StartAttempt(attempted, seq, attempted.pi + 1)]
         /\ UNCHANGED permits
    ELSE /\ tasks' = [tasks EXCEPT ![t][i] =
                         Finished(attempted, Some(OpenPortResult(port, "open", None)))]
         /\ permits' = DropPermit(permits)

\* The task with the attempt that has just ended added to its attempts,
\* and what its write and its read came to kept as those of the last attempt
Recorded(task, probe, service_info) ==
    [task EXCEPT !.last_write = task.write,
                 !.last_read = task.read,
                 !.tried = Append(@, [name |-> probe.name,
                                      sent |-> task.write # "none",
                                      service |-> service_info])]

\* Prober::try_probe at timeout(stream.write_all(&probe_data)).await: an
\* elapsed deadline ends the attempt with None, a written payload and a
\* write error both go on to the read
TryProbeWrite(t, i) ==
    /\ tasks[t][i].pc = "writing"
    /\ LET task == tasks[t][i]
           probe == DetectSequence(env.probes[1], scans[t].port_list[i])[task.pi]
       IN
       \E write \in {"ok", "err", "timeout"} :
          LET written == [task EXCEPT !.write = write,
                                      !.io = @ \cup {ProbeConnection}]
          IN
          IF write = "timeout"
          THEN AfterAttempt(t, i,
                            Recorded(written, probe, try_probe(probe, write, "none", <<>>)),
                            try_probe(probe, write, "none", <<>>))
          ELSE /\ tasks' = [tasks EXCEPT ![t][i] = [written EXCEPT !.pc = "reading"]]
               /\ UNCHANGED permits
    /\ UNCHANGED <<config, env, exec_pc, targets, target_mapping, scans, reports, udp>>
    /\ UNCHANGED pureVars

\* Prober::try_probe at timeout(stream.read(&mut buffer)).await, with the
\* match loops that follow a response
TryProbeRead(t, i) ==
    /\ tasks[t][i].pc = "reading"
    /\ LET task == tasks[t][i]
           probe == DetectSequence(env.probes[1], scans[t].port_list[i])[task.pi]
       IN
       \E read \in {"data", "err", "timeout", "eof"} :
       \E response \in (IF read = "data" THEN RunResponses ELSE {<<>>}) :
          LET answered == [task EXCEPT !.read = read, !.response = response,
                                       !.io = @ \cup {ProbeConnection}]
              service_info == try_probe(probe, task.write, read, response)
          IN
          AfterAttempt(t, i, Recorded(answered, probe, service_info), service_info)
    /\ UNCHANGED <<config, env, exec_pc, targets, target_mapping, scans, reports, udp>>
    /\ UNCHANGED pureVars

\* A scan that returns with the first result it has joined
FirstJoined(joined, spawned) == joined >= 1

\* The for loop over handles ends with the last handle
AllJoined(joined, spawned) == joined = spawned

\* for handle in handles { if let Ok(Some(result)) = handle.await {..} } and
\* the Ok(SynScanResult {..}) after the last handle
JoinTask(t) ==
    /\ scans[t].pc = "joining"
    /\ scans[t].joined < Len(tasks[t])
    /\ tasks[t][scans[t].joined + 1].pc = "done"
    /\ LET result == tasks[t][scans[t].joined + 1].result
           pushed ==
             [scans[t] EXCEPT
                !.joined = @ + 1,
                !.open_ports =
                    IF result # None /\ result[1].state = "Open"
                    THEN Append(@, result[1]) ELSE @,
                !.closed_ports =
                    IF result # None /\ result[1].state = "Closed"
                    THEN Append(@, result[1]) ELSE @,
                !.filtered_ports =
                    IF result # None /\ result[1].state = "Filtered"
                    THEN Append(@, result[1]) ELSE @]
       IN
       scans' = [scans EXCEPT ![t] =
                    IF AllJoined(pushed.joined, Len(tasks[t]))
                    THEN [pushed EXCEPT !.pc = "returned",
                                        !.result = Some([open_ports |-> pushed.open_ports,
                                                         closed_ports |-> pushed.closed_ports,
                                                         filtered_ports |-> pushed.filtered_ports])]
                    ELSE pushed]
    /\ UNCHANGED <<config, env, exec_pc, targets, target_mapping, permits, tasks, reports, udp>>
    /\ UNCHANGED pureVars

\* TCPScanner::exec: for handle in handles { handle.await .. }, one target's
\* result at a time in target order, and Ok(()) after the last
ExecCollect ==
    /\ exec_pc = "tcp_collect"
    /\ Len(reports) < Len(targets)
    /\ scans[Len(reports) + 1].pc = "returned"
    /\ reports' = Append(reports, [target |-> targets[Len(reports) + 1],
                                   result |-> scans[Len(reports) + 1].result])
    /\ exec_pc' = IF Len(reports) + 1 = Len(targets) THEN "done_ok" ELSE "tcp_collect"
    /\ UNCHANGED <<config, env, targets, target_mapping, permits, scans, tasks, udp>>
    /\ UNCHANGED pureVars

\* An exec that goes on to udp_scan with an empty port list
UdpAlwaysScans(ports) == FALSE

\* if ports.is_empty() { return Ok(()) }
UdpNothingToScan(ports) == ports = <<>>

\* Scanner::exec -> UDPScanner::exec up to the call of udp_scan
ScannerExecUdp ==
    /\ exec_pc = "start"
    /\ Orchestrator(config) = "udp"
    /\ IF UdpNothingToScan(parse_ports(config.ports))
       THEN /\ exec_pc' = "done_ok"
            /\ UNCHANGED udp
       ELSE /\ exec_pc' = "udp_scan"
            /\ udp' = [UdpInit EXCEPT !.ports = parse_ports(config.ports)]
    /\ UNCHANGED <<config, env, targets, target_mapping, permits, scans, tasks, reports>>
    /\ UNCHANGED pureVars

\* udp_scan: the address of the next target; a failed lookup ends the run
UdpResolveTarget ==
    /\ exec_pc = "udp_scan"
    /\ udp.ti <= Len(config.target)
    /\ udp.pi = 0
    /\ LET target == config.target[udp.ti]
           resolved == resolve_to_ip(env.dns)
       IN
       IF valid_ip(target)
       THEN /\ udp' = [udp EXCEPT !.ip = target, !.pi = 1, !.results = <<>>,
                                  !.outcomes = <<>>]
            /\ UNCHANGED exec_pc
       ELSE IF resolved # None /\ valid_ip(SplitStr(resolved[1], CommaSpace)[1])
       THEN /\ udp' = [udp EXCEPT !.ip = SplitStr(resolved[1], CommaSpace)[1],
                                  !.pi = 1, !.results = <<>>, !.outcomes = <<>>]
            /\ UNCHANGED exec_pc
       ELSE /\ exec_pc' = "done_err"
            /\ UNCHANGED udp
    /\ UNCHANGED <<config, env, targets, target_mapping, permits, scans, tasks, reports>>
    /\ UNCHANGED pureVars

\* A probe that reads a receive timeout as a closed port
scan_udp_port_timeout_closed(outcome) ==
    IF outcome = "recv_data" THEN "Open" ELSE "Closed"

\* UDPScanner::scan_udp_port
scan_udp_port(outcome) ==
    CASE outcome = "bind_err" -> "Closed"
      [] outcome = "connect_err" -> "Closed"
      [] outcome = "send_err" -> "Closed"
      [] outcome = "recv_data" -> "Open"
      [] outcome = "recv_err" -> "Closed"
      [] outcome = "recv_timeout" -> "Open"

UdpOutcomes ==
    {"bind_err", "connect_err", "send_err", "recv_data", "recv_err", "recv_timeout"}

\* fire_and_forget: one port of the current target
UdpScanPort ==
    /\ exec_pc = "udp_scan"
    /\ udp.pi >= 1
    /\ udp.pi <= Len(udp.ports)
    /\ \E outcome \in UdpOutcomes :
          udp' = [udp EXCEPT
                    !.results = MapInsert(@, udp.ports[udp.pi], scan_udp_port(outcome)),
                    !.outcomes = MapInsert(@, udp.ports[udp.pi], outcome),
                    !.attempts = MapInsert(@, <<udp.ip, udp.ports[udp.pi]>>,
                                           scan_udp_port(outcome)),
                    !.sent = IF outcome \in {"recv_data", "recv_err", "recv_timeout"}
                             THEN @ + 1 ELSE @,
                    !.pi = @ + 1]
    /\ UNCHANGED <<config, env, exec_pc, targets, target_mapping, permits, scans, tasks, reports>>
    /\ UNCHANGED pureVars

\* udp_scan: the results of a target merged into combined_results
RECURSIVE MergeInto(_, _, _)
MergeInto(combined, results, keys) ==
    IF keys = {} THEN combined
    ELSE LET k == CHOOSE x \in keys : TRUE IN
         MergeInto(MapInsert(combined, k, results[k]), results, keys \ {k})

UdpMergeTarget ==
    /\ exec_pc = "udp_scan"
    /\ udp.pi >= 1
    /\ udp.pi > Len(udp.ports)
    /\ udp' = [udp EXCEPT
                 !.combined_results = MergeInto(@, udp.results, DOMAIN udp.results),
                 !.ti = @ + 1,
                 !.pi = 0]
    /\ UNCHANGED <<config, env, exec_pc, targets, target_mapping, permits, scans, tasks, reports>>
    /\ UNCHANGED pureVars

\* The protocol label of the UDP display
Str_UDP == <<"U", "D", "P">>

\* UDPScanner::exec after udp_scan returned Ok: the combined results are
\* displayed unless they are empty
UdpExecReturn ==
    /\ exec_pc = "udp_scan"
    /\ udp.ti > Len(config.target)
    /\ exec_pc' = "done_ok"
    /\ reports' = IF udp.combined_results = <<>> THEN reports
                  ELSE Append(reports, [target |-> Str_UDP, result |-> udp.combined_results])
    /\ UNCHANGED <<config, env, targets, target_mapping, permits, scans, tasks, udp>>
    /\ UNCHANGED pureVars

Next ==
    \/ ScannerExecNone
    \/ ScannerExecTcp
    \/ ScannerExecUdp
    \/ \E t \in 1..Len(scans) : SynScanStart(t)
    \/ \E t \in 1..Len(tasks) : \E i \in 1..Len(tasks[t]) : AcquirePermit(t, i)
    \/ \E t \in 1..Len(tasks) : \E i \in 1..Len(tasks[t]) : ConnectResolves(t, i)
    \/ \E t \in 1..Len(tasks) : \E i \in 1..Len(tasks[t]) : ProbeConnectResolves(t, i)
    \/ \E t \in 1..Len(tasks) : \E i \in 1..Len(tasks[t]) : GrabBanner(t, i)
    \/ \E t \in 1..Len(tasks) : \E i \in 1..Len(tasks[t]) : TryProbeWrite(t, i)
    \/ \E t \in 1..Len(tasks) : \E i \in 1..Len(tasks[t]) : TryProbeRead(t, i)
    \/ \E t \in 1..Len(scans) : JoinTask(t)
    \/ ExecCollect
    \/ UdpResolveTarget
    \/ UdpScanPort
    \/ UdpMergeTarget
    \/ UdpExecReturn

Spec == Init /\ [][Next]_vars

\* The largest number of port tasks, over all targets, of the runs followed
\* under fair scheduling
MaxFairTasks == 2

\* The runs of the TCP orchestrator on targets given as addresses
InitFair ==
    /\ Init
    /\ config.tcp /\ ~config.udp
    /\ \A i \in 1..Len(config.target) : valid_ip(config.target[i])
    /\ Len(config.target) * Len(parse_ports(config.ports)) <= MaxFairTasks

\* The steps of the TCP orchestrator and of its port tasks
NextTcp ==
    \/ ScannerExecTcp
    \/ \E t \in 1..Len(scans) : SynScanStart(t)
    \/ \E t \in 1..Len(tasks) : \E i \in 1..Len(tasks[t]) : AcquirePermit(t, i)
    \/ \E t \in 1..Len(tasks) : \E i \in 1..Len(tasks[t]) : ConnectResolves(t, i)
    \/ \E t \in 1..Len(tasks) : \E i \in 1..Len(tasks[t]) : ProbeConnectResolves(t, i)
    \/ \E t \in 1..Len(tasks) : \E i \in 1..Len(tasks[t]) : GrabBanner(t, i)
    \/ \E t \in 1..Len(tasks) : \E i \in 1..Len(tasks[t]) : TryProbeWrite(t, i)
    \/ \E t \in 1..Len(tasks) : \E i \in 1..Len(tasks[t]) : TryProbeRead(t, i)
    \/ \E t \in 1..Len(scans) : JoinTask(t)
    \/ ExecCollect

\* The TCP run under the scheduling of the tokio runtime: every spawned task
\* that can take a step is polled, every awaited connect, read and write is
\* bounded by its timeout, and the semaphore hands a permit that came back
\* to a waiting task, so a run does not stop while a step is possible
SpecFair == InitFair /\ [][NextTcp]_vars /\ WF_vars(NextTcp)

(***************************************************************************)
(* Claims about a run.                                                     *)
(***************************************************************************)
AllTasks == {x \in (1..Len(tasks)) \X (1..2) : x[2] <= Len(tasks[x[1]])}
TaskOf(x) == tasks[x[1]][x[2]]

\* The tasks with a connect awaited: the classifying connect of syn_scan or
\* the connect of the probing connection
InFlight == {x \in AllTasks : TaskOf(x).pc \in {"connecting", "probe_connecting"}}

\* C1: at every moment the number of port tasks with a connection attempt in
\* flight, over all ports of all targets, is at most the concurrency limit.
C1_InFlightWithinLimit ==
    Cardinality(InFlight) <= config.threads

\* C1 witness: with limit 1 and two targets, a task of one target is
\* connecting while a task of the other target waits for the permit
C1_Witness ==
    /\ config.threads = 1
    /\ Len(tasks) = 2
    /\ permits = 0
    /\ \E i \in 1..Len(tasks[1]) : tasks[1][i].pc = "connecting"
    /\ \E i \in 1..Len(tasks[2]) : tasks[2][i].pc = "pending"

\* C2: a connect that completes gives Open, the orchestrator deadline gives
\* Filtered, a refusal reported by the transport gives Closed, whatever
\* else happens in the attempt (service detection included).
C2_ConnectOutcomeDecidesState ==
    \A x \in AllTasks :
        TaskOf(x).pc = "done" =>
            /\ TaskOf(x).result # None
            /\ (TaskOf(x).conn = "ok" => TaskOf(x).result[1].state = "Open")
            /\ (TaskOf(x).conn = "deadline" => TaskOf(x).result[1].state = "Filtered")
            /\ (TaskOf(x).conn = "ConnectionRefused" => TaskOf(x).result[1].state = "Closed")

\* C2 witness: a port whose connect succeeded and whose probing connection
\* was refused afterwards is reported Open
C2_Witness ==
    \E x \in AllTasks :
        /\ TaskOf(x).pc = "done"
        /\ TaskOf(x).conn = "ok"
        /\ TaskOf(x).probe_conn = "err"
        /\ TaskOf(x).result[1].state = "Open"

FailedTasks(t) == {i \in 1..Len(tasks[t]) : tasks[t][i].conn # "ok"}

\* C5: no connect error or deadline makes syn_scan return an error: the
\* scan of a target returns Ok and every failed attempt is one Closed or
\* Filtered result; a run ends in error only before any scan has started.
C5_ConnectFailuresNeverFailScan ==
    /\ (exec_pc = "done_err" => scans = <<>>)
    /\ \A t \in 1..Len(scans) :
          scans[t].pc = "returned" =>
            /\ scans[t].result # None
            /\ Len(scans[t].result[1].closed_ports) + Len(scans[t].result[1].filtered_ports)
                  = Cardinality(FailedTasks(t))
            /\ \A i \in FailedTasks(t) :
                  LET rs == scans[t].result[1].closed_ports \o scans[t].result[1].filtered_ports
                  IN  \E k \in 1..Len(rs) :
                        /\ rs[k].port = DecimalText(scans[t].port_list[i])
                        /\ rs[k].state \in {"Closed", "Filtered"}
                        /\ rs[k].service = None

\* C5 witness: a scan has returned with one port refused and one port timed
\* out at the deadline
C5_Witness ==
    \E t \in 1..Len(scans) :
        /\ scans[t].pc = "returned"
        /\ scans[t].result # None
        /\ Len(scans[t].result[1].closed_ports) = 1
        /\ Len(scans[t].result[1].filtered_ports) = 1
        /\ \E i \in 1..Len(tasks[t]) : tasks[t][i].conn = "deadline"

\* Something went wrong in the probing of the port: the probing connection
\* was refused or timed out, or in the last probe attempt the write failed
\* or timed out, or the read failed, timed out or returned no bytes
ProbingFailed(task) ==
    \/ task.probe_conn \in {"err", "timeout"}
    \/ task.write \in {"err", "timeout"}
    \/ task.read \in {"err", "timeout", "eof"}

\* C6: with service detection enabled, whatever happens during the probing
\* of an Open port (refused or timed-out probing connection, failed or
\* timed-out write or read) the result stays Open with service absent, and
\* the scan returns successfully.
C6_ProbingFailureLeavesOpenNoService ==
    /\ \A x \in AllTasks :
          (config.service_detection /\ TaskOf(x).pc = "done" /\ TaskOf(x).conn = "ok") =>
            /\ TaskOf(x).result # None
            /\ TaskOf(x).result[1].state = "Open"
            /\ (ProbingFailed(TaskOf(x)) => TaskOf(x).result[1].service = None)
    /\ \A t \in 1..Len(scans) : scans[t].pc = "returned" => scans[t].result # None

\* The tasks for which a try_probe call of detect_service has returned
Attempted == {x \in AllTasks : TaskOf(x).tried # <<>>}

\* The index, in the order detect_service tries them, of the probe of the
\* last try_probe call that has returned for the task
LastAttempt(x) == Len(TaskOf(x).tried)

\* What the last attempt of the task returned to detect_service
LastAttemptService(x) == TaskOf(x).tried[LastAttempt(x)].service

\* C11: service detection stops at the first probe attempt that yields a hard
\* or soft match: once an attempt has matched, the task is finished with the
\* service of that attempt and the attempt is the last one made (no later
\* probe is sent or read).
C11_DetectionStopsAtFirstMatch ==
    \A x \in Attempted :
        LastAttemptService(x) # None =>
            /\ TaskOf(x).pc = "done"
            /\ TaskOf(x).result # None
            /\ TaskOf(x).result[1].service = LastAttemptService(x)

\* C11 witness: the NULL probe matched and ended detection although the
\* next probe of the sequence, never sent, matches the same response as
\* another service
C11_Witness ==
    \E x \in Attempted :
        /\ TaskOf(x).pc = "done"
        /\ TaskOf(x).pi = 1
        /\ TaskOf(x).result[1].service # None
        /\ TaskOf(x).result[1].service[1].service = "ssh"
        /\ LET seq == DetectSequence(env.probes[1], scans[x[1]].port_list[x[2]]) IN
           /\ Len(seq) = 2
           /\ MatchProbe(seq[2], TaskOf(x).response) # None
           /\ MatchProbe(seq[2], TaskOf(x).response)[1].service = "http"

\* C15: a UDP port probe gives Open when a datagram is received before the
\* deadline, Open when the receive times out, and Closed when binding,
\* associating, sending or receiving fails; the result is always one of
\* Open and Closed.
C15_UdpProbeOpenOrClosed ==
    /\ DOMAIN udp.outcomes = DOMAIN udp.results
    /\ \A port \in DOMAIN udp.results :
          /\ udp.results[port] \in {"Open", "Closed"}
          /\ (udp.outcomes[port] \in {"recv_data", "recv_timeout"}
                => udp.results[port] = "Open")
          /\ (udp.outcomes[port] \in {"bind_err", "connect_err", "send_err", "recv_err"}
                => udp.results[port] = "Closed")

\* C15 witness: a port whose receive timed out has been given Open
C15_Witness ==
    \E port \in DOMAIN udp.results :
        udp.outcomes[port] = "recv_timeout" /\ udp.results[port] = "Open"

\* C16: the reported results are keyed by (target, port): at the end of a
\* UDP run over several targets each (target, port) pair is reported with the
\* state its own attempt produced, whatever the order of the targets.
C16_ResultsKeyedByTargetAndPort ==
    (config.udp /\ exec_pc = "done_ok") =>
        \A pair \in DOMAIN udp.attempts :
            /\ pair[2] \in DOMAIN udp.combined_results
            /\ udp.combined_results[pair[2]] = udp.attempts[pair]

\* The message of the connect error of the given kind
MessageOfKind(kind) == (CHOOSE e \in RunConnectErrors : e[1] = kind)[2]

\* The result a port task owes to what the network did to that port alone:
\* the outcome of its connect and, when probing ran, of its last attempt
OwnResult(x) ==
    LET task == TaskOf(x)
        port == scans[x[1]].port_list[x[2]]
    IN  [ port |-> DecimalText(port),
          state |-> CASE task.conn = "ok" -> "Open"
                      [] task.conn = "deadline" -> "Filtered"
                      [] OTHER -> ClassifyConnectError(task.conn, MessageOfKind(task.conn)),
          service |-> IF x \in Attempted THEN LastAttemptService(x) ELSE None ]

ResultsOf(t) ==
    scans[t].result[1].open_ports \o scans[t].result[1].closed_ports
        \o scans[t].result[1].filtered_ports

\* C17: the PortResult set of a TCP scan is a function of the per-port
\* network outcomes: under every interleaving of the port tasks and every
\* order of permit acquisition, the scan returns exactly the results that
\* each port's own outcome determines.
C17_ResultsDependOnOwnOutcomeOnly ==
    \A t \in 1..Len(scans) :
        (scans[t].pc = "returned" /\ tasks[t] # <<>>) =>
            /\ Len(ResultsOf(t)) = Len(tasks[t])
            /\ {ResultsOf(t)[k] : k \in 1..Len(ResultsOf(t))}
                 = {OwnResult(<<t, i>>) : i \in 1..Len(tasks[t])}

\* C17 witness: with one permit, a scan of two ports has returned, one port
\* having timed out at the deadline and the other having connected
C17_Witness ==
    \E t \in 1..Len(scans) :
        /\ config.threads = 1
        /\ scans[t].pc = "returned"
        /\ Len(tasks[t]) = 2
        /\ tasks[t][1].conn = "deadline"
        /\ tasks[t][2].conn = "ok"

\* The run looks up a name and the lookup fails or returns no address
ResolutionFails ==
    /\ resolve_to_ip(env.dns) = None
    /\ \E i \in 1..Len(config.target) : ~valid_ip(config.target[i])
    /\ \/ config.udp /\ parse_ports(config.ports) # <<>>
       \/ ~config.udp /\ config.tcp

\* C18: if name resolution fails for any target, the run never ends in
\* success and reports results for no target, the ones listed before the
\* failing target included; in the TCP path no scan is spawned and no
\* connection attempt is made to any target.
C18_ResolutionFailureAbortsRun ==
    ResolutionFails =>
        /\ exec_pc # "done_ok"
        /\ reports = <<>>
        /\ (~config.udp => (exec_pc \in {"start", "done_err"}
                              /\ scans = <<>> /\ tasks = <<>>))

\* C18 witness: a TCP run over an address and then a name that does not
\* resolve has ended in error
C18_Witness ==
    /\ config.target = <<IP1, HostName>>
    /\ env.dns = <<>>
    /\ ~config.udp /\ config.tcp
    /\ parse_ports(config.ports) # <<>>
    /\ exec_pc = "done_err"

\* The result of a port task of a run without service detection, by the
\* outcome of its connect
ResultWithoutDetection(x) ==
    [ port |-> DecimalText(scans[x[1]].port_list[x[2]]),
      state |-> CASE TaskOf(x).conn = "ok" -> "Open"
                  [] TaskOf(x).conn = "deadline" -> "Filtered"
                  [] TaskOf(x).conn = "ConnectionRefused" -> "Closed"
                  [] TaskOf(x).conn = "Other" -> "Filtered",
      service |-> None ]

\* C19: when the probe database cannot be read or parsed, a TCP scan with
\* service detection enabled still returns successfully, and every port
\* gets the result it would get with service detection disabled: the same
\* state and service absent.
C19_ProbeLoadFailureDegrades ==
    (config.service_detection /\ env.probes = None) =>
        /\ \A x \in AllTasks :
              TaskOf(x).pc = "done" => TaskOf(x).result = Some(ResultWithoutDetection(x))
        /\ \A t \in 1..Len(scans) :
              scans[t].pc = "returned" =>
                /\ scans[t].result # None
                /\ Len(ResultsOf(t)) = Len(tasks[t])

\* C19 witness: with the database missing, a scan has returned in which an
\* Open port went through the banner fallback
C19_Witness ==
    /\ config.service_detection
    /\ env.probes = None
    /\ \E t \in 1..Len(scans) :
          /\ scans[t].pc = "returned"
          /\ \E i \in 1..Len(tasks[t]) :
                /\ tasks[t][i].conn = "ok"
                /\ tasks[t][i].probe_conn = "ok"
                /\ tasks[t][i].result[1].state = "Open"

\* The name lookup of the run returns several addresses
SeveralAddresses == Len(env.dns) >= 2

\* The addresses a run may scan: the targets given as literals and the first
\* address of the lookup
ScannableAddresses ==
    {config.target[i] : i \in {j \in 1..Len(config.target) : valid_ip(config.target[j])}}
        \cup {env.dns[1]}

\* C20: a hostname that resolves to several addresses contributes exactly
\* one scan target, the first address returned, which is mapped back to the
\* hostname; the other addresses are never scanned.
C20_FirstResolvedAddressOnly ==
    SeveralAddresses =>
        /\ (~config.udp /\ config.tcp /\ exec_pc \in {"tcp_collect", "done_ok"}) =>
              /\ Len(targets) = Len(config.target)
              /\ Len(scans) = Len(config.target)
              /\ \A i \in 1..Len(config.target) :
                    IF valid_ip(config.target[i])
                    THEN targets[i] = config.target[i]
                    ELSE /\ targets[i] = env.dns[1]
                         /\ target_mapping[env.dns[1]] = config.target[i]
        /\ \A k \in 1..Len(reports) :
              reports[k].target \in ScannableAddresses \cup {Str_UDP}
        /\ \A pair \in DOMAIN udp.attempts : pair[1] \in ScannableAddresses

\* C20 witness: the name resolved to two addresses and the scan of the
\* first one has been reported under the second target of the run
C20_Witness ==
    /\ config.target = <<IP1, HostName>>
    /\ env.dns = <<IP3, IP2>>
    /\ targets = <<IP1, IP3>>
    /\ Len(reports) = 2
    /\ reports[2].target = IP3
    /\ target_mapping[IP3] = HostName

\* The port tasks whose connect attempt is awaited by syn_scan itself
Connecting == {x \in AllTasks : TaskOf(x).pc = "connecting"}

\* The port tasks in the service-detection phase: inside Prober::probe_port
InDetection ==
    {x \in AllTasks : TaskOf(x).pc \in {"probe_connecting", "banner", "writing", "reading"}}

\* C21: with service detection enabled a port task releases its permit as
\* soon as its connect attempt resolves: only the tasks awaiting their connect
\* hold permits, so no task is in the service-detection phase with a permit
\* and a free permit exists whenever fewer than the limit are connecting.
C21_PermitReleasedBeforeDetection ==
    (config.service_detection /\ scans # <<>>) =>
        permits = config.threads - Cardinality(Connecting)

\* The port tasks between sem_clone.acquire() and the end of their block
Holding ==
    {x \in AllTasks :
        TaskOf(x).pc \in {"connecting", "probe_connecting", "banner", "writing", "reading"}}

AllReturned == \A t \in 1..Len(scans) : scans[t].pc = "returned"

\* C22: every port task that acquired a permit gives it back on every exit
\* path: at every moment the permits held plus the permits available are N,
\* and when every scan has returned all N permits are available again.
C22_PermitsConserved ==
    scans # <<>> =>
        /\ permits + Cardinality(Holding) = config.threads
        /\ (AllReturned => permits = config.threads)

\* C22 witness: a scan with limit 1 has returned after one task ended at the
\* orchestrator deadline and another ended in service detection without a
\* service, and the permit is available again
C22_Witness ==
    /\ config.threads = 1
    /\ scans # <<>>
    /\ AllReturned
    /\ permits = 1
    /\ \E x \in AllTasks : TaskOf(x).conn = "deadline"
    /\ \E x \in AllTasks :
          /\ TaskOf(x).conn = "ok"
          /\ ProbingFailed(TaskOf(x))
          /\ TaskOf(x).result[1].service = None

\* C23: no byte is written to or read from the connection that classifies a
\* port. Without service detection that connection is never left open; with
\* service detection all probe traffic goes over a separate connection that
\* Prober::probe_port opened itself.
C23_ScanConnectionCarriesNoData ==
    \A x \in AllTasks :
        /\ "scan" \notin TaskOf(x).io
        /\ (~config.service_detection => TaskOf(x).scan_conn # "open")
        /\ (TaskOf(x).io # {} =>
                /\ config.service_detection
                /\ TaskOf(x).io = {"probe"}
                /\ TaskOf(x).conn = "ok"
                /\ TaskOf(x).probe_conn = "ok")

\* C23 witness: a finished task that exchanged probe traffic, on the probing
\* connection only, and whose scan connection is closed
C23_Witness ==
    \E x \in AllTasks :
        /\ TaskOf(x).pc = "done"
        /\ TaskOf(x).scan_conn = "closed"
        /\ TaskOf(x).io = {"probe"}
        /\ TaskOf(x).write = "ok"
        /\ TaskOf(x).read = "data"

\* Whether sub occurs in text
HasSubstring(text, sub) ==
    \E a \in 0..(Len(text) - Len(sub)) : SubSeq(text, a + 1, a + Len(sub)) = sub

\* A probe lists a port when one of its ports strings has the port's
\* decimal string or T:<port> in it
ListsPort(probe, port) ==
    \E k \in 1..Len(probe.ports) :
        \/ HasSubstring(probe.ports[k], DecimalText(port))
        \/ HasSubstring(probe.ports[k], <<"T", ":">> \o DecimalText(port))

\* The database positions of the probes stated to be relevant for a port
RelevantIndices(db, port) ==
    LET byPort == {k \in 1..Len(db.probes) :
                      db.probes[k].protocol = "TCP" /\ ListsPort(db.probes[k], port)}
        common == {k \in 1..Len(db.probes) :
                      /\ db.probes[k].protocol = "TCP"
                      /\ db.probes[k].name \in {"GetRequest", "GenericLines"}}
    IN  IF byPort # {} THEN byPort ELSE common

\* The entries of seq at the positions in S, in the order of seq
RECURSIVE Pick(_, _, _)
Pick(seq, S, k) ==
    IF k > Len(seq) THEN <<>>
    ELSE (IF k \in S THEN <<seq[k]>> ELSE <<>>) \o Pick(seq, S, k + 1)

StatedRelevant(db, port) == Pick(db.probes, RelevantIndices(db, port), 1)

\* The database positions of the TCP probes named NULL
NullProbes(db) ==
    {k \in 1..Len(db.probes) :
        db.probes[k].name = "NULL" /\ db.probes[k].protocol = "TCP"}

\* C24: if the database holds a TCP probe named NULL, the first attempt of
\* service detection on every port is that probe, no bytes are sent for it
\* when its payload is empty, and every later attempt follows a NULL attempt
\* without match and takes the port-relevant probes in database order.
C24_NullProbeFirstThenRelevant ==
    \A x \in AllTasks :
        (TaskOf(x).tried # <<>> /\ NullProbes(env.probes[1]) # {}) =>
            LET tried == TaskOf(x).tried
                db == env.probes[1]
                relevant == StatedRelevant(db, scans[x[1]].port_list[x[2]])
            IN
            /\ tried[1].name = "NULL"
            /\ ((\A k \in NullProbes(db) : db.probes[k].probe_string = <<>>)
                    => ~tried[1].sent)
            /\ (Len(tried) >= 2 => tried[1].service = None)
            /\ \A k \in 2..Len(tried) :
                  /\ k - 1 <= Len(relevant)
                  /\ tried[k].name = relevant[k - 1].name

\* C24 witness: on port 80 of a database that lists GenericLines before NULL,
\* detection tried NULL, then GenericLines, then HTTPOptions
C24_Witness ==
    \E x \in AllTasks :
        /\ env.probes = Some(RunPortsDB)
        /\ scans[x[1]].port_list[x[2]] = 80
        /\ Len(TaskOf(x).tried) = 3
        /\ TaskOf(x).tried[1].name = "NULL"
        /\ ~TaskOf(x).tried[1].sent
        /\ TaskOf(x).tried[2].name = "GenericLines"
        /\ TaskOf(x).tried[3].name = "HTTPOptions"

\* A probe attempt whose write failed or timed out, or whose read failed,
\* timed out or returned no bytes
AttemptFailed(task) ==
    \/ task.last_write \in {"err", "timeout"}
    \/ task.last_read \in {"err", "timeout", "eof"}

\* C26: a probe attempt whose write fails or times out, or whose read fails,
\* times out or returns no bytes, ends with no service and no error, and
\* detection goes on to the next probe or ends with no service when none is
\* left.
C26_FailedAttemptYieldsNothing ==
    \A x \in AllTasks :
        (TaskOf(x).tried # <<>> /\ AttemptFailed(TaskOf(x))) =>
            LET task == TaskOf(x)
                n == Len(task.tried)
            IN
            /\ task.tried[n].service = None
            /\ (task.pc = "done" =>
                    /\ task.result # None
                    /\ task.result[1].service = None)
            /\ (task.pc # "done" =>
                    task.pc \in {"writing", "reading"} /\ task.pi = n + 1)

\* C25: for every database and port the relevant probes are, in database
\* order, exactly the TCP probes with a ports string that has the port's
\* decimal string or T:<port> in it; when there is none they are exactly the
\* TCP probes named GetRequest or GenericLines; a probe of another protocol
\* is never among them.
C25_RelevantByPortElseCommon ==
    r_relevant.done =>
        /\ r_relevant.probes = StatedRelevant(r_probes, r_port)
        /\ \A k \in 1..Len(r_relevant.probes) : r_relevant.probes[k].protocol = "TCP"

\* C25 witness: the only probe listing port 80 is a UDP probe, so the
\* selection falls back to the TCP probe named GenericLines
C25_Witness ==
    /\ r_relevant.done
    /\ r_port = 80
    /\ Len(r_probes.probes) = 2
    /\ r_probes.probes[1].protocol = "UDP"
    /\ ListsPort(r_probes.probes[1], 80)
    /\ r_probes.probes[2].protocol = "TCP"
    /\ r_probes.probes[2].name = "GenericLines"
    /\ ~ListsPort(r_probes.probes[2], 80)
    /\ r_relevant.probes = <<r_probes.probes[2]>>

\* The results of a returned scan, the three sets one after the other
AllResults(t) ==
    scans[t].result[1].open_ports \o scans[t].result[1].closed_ports
        \o scans[t].result[1].filtered_ports

\* C33: the scan of a target returns only after every spawned port task has
\* ended, and then the Open, Closed and Filtered sets together hold exactly
\* one result per entry of the parsed port list (an entry listed twice gives
\* two results), each result in the set of its state and in no other.
C33_ReturnsAfterAllTasksOneResultEach ==
    \A t \in 1..Len(scans) :
        scans[t].pc = "returned" =>
            /\ scans[t].result # None
            /\ Len(tasks[t]) = Len(parse_ports(config.ports))
            /\ \A i \in 1..Len(tasks[t]) : tasks[t][i].pc = "done"
            /\ Len(AllResults(t)) = Len(parse_ports(config.ports))
            /\ \A port \in {parse_ports(config.ports)[i] : i \in 1..Len(parse_ports(config.ports))} :
                  Cardinality({k \in 1..Len(AllResults(t)) :
                                  AllResults(t)[k].port = DecimalText(port)})
                  = Cardinality({i \in 1..Len(parse_ports(config.ports)) :
                                  parse_ports(config.ports)[i] = port})
            /\ \A k \in 1..Len(scans[t].result[1].open_ports) :
                  scans[t].result[1].open_ports[k].state = "Open"
            /\ \A k \in 1..Len(scans[t].result[1].closed_ports) :
                  scans[t].result[1].closed_ports[k].state = "Closed"
            /\ \A k \in 1..Len(scans[t].result[1].filtered_ports) :
                  scans[t].result[1].filtered_ports[k].state = "Filtered"

\* C33 witness: port 80 listed twice gives two tasks and two results for
\* port 80, one Open and one Filtered
C33_Witness ==
    \E t \in 1..Len(scans) :
        /\ scans[t].pc = "returned"
        /\ Len(tasks[t]) = 2
        /\ Len(scans[t].result[1].open_ports) = 1
        /\ Len(scans[t].result[1].filtered_ports) = 1
        /\ scans[t].result[1].open_ports[1].port = scans[t].result[1].filtered_ports[1].port

\* A run of the TCP orchestrator with a concurrency limit of at least one
\* whose port tasks have been spawned
TcpScanSpawned ==
    /\ config.threads >= 1
    /\ exec_pc = "tcp_collect"

\* Every port task has held a permit, made its connect and ended with a
\* result in one of the three states, and every scan has returned
AllClassifiedAndReturned ==
    /\ exec_pc = "done_ok"
    /\ \A t \in 1..Len(scans) : scans[t].pc = "returned"
    /\ \A x \in AllTasks :
          /\ TaskOf(x).pc = "done"
          /\ TaskOf(x).conn # "none"
          /\ TaskOf(x).result # None
          /\ TaskOf(x).result[1].state \in {"Open", "Closed", "Filtered"}
    /\ permits = config.threads

\* C34: for every concurrency limit of at least one and every port list,
\* under fair scheduling each port task eventually acquires a permit and
\* reaches Open, Closed or Filtered, and the scan eventually returns: no task
\* waits for a permit forever and no set of tasks deadlocks on the pool.
C34_EveryTaskClassifiedScanReturns ==
    TcpScanSpawned ~> AllClassifiedAndReturned

\* C34 witness: limit 1 and two targets with one port each: the two tasks
\* have shared the one permit and both have ended
C34_Witness ==
    /\ config.threads = 1
    /\ Len(tasks) = 2
    /\ AllClassifiedAndReturned
    /\ Cardinality(AllTasks) = 2

\* C35: in a TCP run with concurrency limit 0 and a non-empty port list no port task ever
\* acquires a permit, no connection attempt is ever made and the TCP scan
\* never returns: every task stays pending, and the per-attempt deadline,
\* which starts after the permit, does not release it.
C35_LimitZeroNeverStarts ==
    (config.threads = 0 /\ parse_ports(config.ports) # <<>> /\ config.tcp /\ ~config.udp) =>
        /\ permits = 0
        /\ \A x \in AllTasks :
              /\ TaskOf(x).pc = "pending"
              /\ TaskOf(x).conn = "none"
              /\ TaskOf(x).scan_conn = "none"
              /\ TaskOf(x).result = None
        /\ \A t \in 1..Len(scans) :
              /\ scans[t].pc # "returned"
              /\ scans[t].joined = 0
              /\ scans[t].result = None
        /\ reports = <<>>
        /\ (scans # <<>> => exec_pc = "tcp_collect")

\* C35 witness: limit 0 and a list of two ports: both tasks of a target are
\* spawned and pending, the scan waits for the first of them
C35_Witness ==
    /\ config.threads = 0
    /\ \E t \in 1..Len(scans) :
          /\ scans[t].pc = "joining"
          /\ Len(tasks[t]) = 2
          /\ \A i \in 1..2 : tasks[t][i].pc = "pending"

\* C36: the deadline of a port's connect attempt starts only when the task
\* already holds a permit: a task that waits for a permit gets no result in
\* that step, its only step is taking a permit, and a task is marked as
\* having met the deadline only in a step it starts while connecting.
C36_DeadlineStartsAfterPermit ==
    [][\A x \in AllTasks :
          /\ TaskOf(x).pc = "pending" =>
                /\ tasks'[x[1]][x[2]].result = None
                /\ tasks'[x[1]][x[2]].conn = "none"
                /\ tasks'[x[1]][x[2]].pc \in {"pending", "connecting"}
                /\ (tasks'[x[1]][x[2]].pc = "connecting" => permits' = permits - 1)
          /\ (TaskOf(x).conn # "deadline" /\ tasks'[x[1]][x[2]].conn = "deadline") =>
                TaskOf(x).pc = "connecting"]_vars

\* C36 witness: limit 1; the first task of a target met the deadline while
\* the second waited for the only permit, and the second was then found open
C36_Witness ==
    /\ config.threads = 1
    /\ \E t \in 1..Len(tasks) :
          /\ Len(tasks[t]) = 2
          /\ tasks[t][1].conn = "deadline"
          /\ tasks[t][1].result # None /\ tasks[t][1].result[1].state = "Filtered"
          /\ tasks[t][2].pc = "done"
          /\ tasks[t][2].result[1].state = "Open"

\* Service detection has been started for the task: it is in probe_port or
\* has opened, used or tried something on a probing connection
DetectionStarted(task) ==
    \/ task.pc \in {"probe_connecting", "banner", "writing", "reading"}
    \/ task.probe_conn # "none"
    \/ task.io # {}
    \/ task.tried # <<>>

\* C37: in every TCP result set a PortResult carries service information
\* only if its state is Open and service detection is enabled for the run;
\* every Closed or Filtered result has service absent, and no service
\* detection is started for a port whose connect did not succeed (nor in a
\* run with service detection off).
C37_ServiceOnlyOnOpenWithDetection ==
    /\ \A x \in AllTasks :
          /\ TaskOf(x).result # None =>
                /\ TaskOf(x).result[1].service # None =>
                      /\ TaskOf(x).result[1].state = "Open"
                      /\ config.service_detection
                /\ TaskOf(x).result[1].state \in {"Closed", "Filtered"} =>
                      TaskOf(x).result[1].service = None
          /\ DetectionStarted(TaskOf(x)) =>
                /\ TaskOf(x).conn = "ok"
                /\ config.service_detection
    /\ \A t \in 1..Len(scans) :
          /\ \A k \in 1..Len(scans[t].open_ports) :
                scans[t].open_ports[k].service # None => config.service_detection
          /\ \A k \in 1..Len(scans[t].closed_ports) :
                scans[t].closed_ports[k].service = None
          /\ \A k \in 1..Len(scans[t].filtered_ports) :
                scans[t].filtered_ports[k].service = None

\* C37 witness: a run with service detection on whose scan has returned one
\* Open result with a detected service and one Closed result without
C37_Witness ==
    /\ config.service_detection
    /\ \E t \in 1..Len(scans) :
          /\ scans[t].pc = "returned"
          /\ \E k \in 1..Len(scans[t].open_ports) : scans[t].open_ports[k].service # None
          /\ scans[t].closed_ports # <<>>

\* The UDP orchestrator has scanned: exec is in its loops or has left them
UdpRan ==
    \/ exec_pc = "udp_scan"
    \/ udp # UdpInit

\* The TCP orchestrator has run: its targets were resolved and scans exist,
\* or the resolution failed and ended the run
TcpRan ==
    \/ exec_pc = "tcp_collect"
    \/ targets # <<>>
    \/ scans # <<>>
    \/ exec_pc = "done_err" /\ udp = UdpInit

\* C38: one execution of the Scanner runs at most one orchestrator: the UDP
\* orchestrator when the udp flag is set, whatever the tcp flag is;
\* otherwise the TCP orchestrator when the tcp flag is set; and no scan at
\* all, with a successful return, when neither flag is set.
C38_AtMostOneOrchestrator ==
    /\ ~(TcpRan /\ UdpRan)
    /\ config.udp =>
          /\ ~TcpRan
          /\ (exec_pc # "start" /\ parse_ports(config.ports) # <<>>) => UdpRan
    /\ (~config.udp /\ config.tcp) =>
          /\ ~UdpRan
          /\ exec_pc # "start" => TcpRan
    /\ (~config.udp /\ ~config.tcp) =>
          /\ ~TcpRan /\ ~UdpRan
          /\ exec_pc \in {"start", "done_ok"}
          /\ reports = <<>>

\* C38 witness: both flags set and a port to scan: exec has returned after
\* the UDP scan, and no TCP scan was made
C38_Witness ==
    /\ config.udp /\ config.tcp
    /\ exec_pc = "done_ok"
    /\ udp.sent > 0
    /\ scans = <<>>

NothingToScan == parse_ports(config.ports) = <<>>

\* C9: with an empty or all-malformed port specification the TCP scan of a
\* target returns Ok with empty Open, Closed and Filtered sets, spawns no
\* task and takes no permit, and the UDP run returns Ok without resolving
\* a name or sending a datagram.
C9_NothingToScanIsSuccess ==
    NothingToScan =>
        /\ \A t \in 1..Len(scans) :
              /\ tasks[t] = <<>>
              /\ scans[t].pc \in {"spawned", "returned"}
              /\ (scans[t].pc = "returned" => scans[t].result = Some(EmptyScanResult))
        /\ (scans # <<>> => permits = config.threads)
        /\ (config.udp => exec_pc \in {"start", "done_ok"} /\ udp = UdpInit)

\* C9 witness: a TCP run whose specification holds only a malformed token
\* has ended, every scan having returned the empty result
C9_Witness ==
    /\ config.ports = <<"2", "-", "1">>
    /\ exec_pc = "done_ok"
    /\ Len(reports) = 2
    /\ \A k \in 1..Len(reports) : reports[k].result = Some(EmptyScanResult)

(***************************************************************************)
(* Claims about the version-template substitution.                         *)
(***************************************************************************)
GroupCount(captures) == Len(captures) - 1

\* The text group n matched, empty when the group did not take part
GroupText(captures, n) ==
    IF captures[n + 1] = None THEN <<>> ELSE captures[n + 1][1]

IsPrefix(p, s) == Len(p) <= Len(s) /\ SubSeq(s, 1, Len(p)) = p

\* The group numbers N, within the groups of the match, such that the text
\* after a dollar sign starts with the decimal digits of N
PlaceholdersAt(rest, captures) ==
    {n \in 1..GroupCount(captures) : IsPrefix(DecimalText(n), rest)}

Largest(S) == CHOOSE n \in S : \A k \in S : k <= n

\* Simultaneous substitution: the template is read once from left to right,
\* each placeholder $N (the longest N that names a group) gives the text of
\* group N, and what has been inserted is not read again
RECURSIVE SimultaneousSubstitution(_, _)
SimultaneousSubstitution(value, captures) ==
    IF value = <<>> THEN <<>>
    ELSE IF value[1] = "$" /\ PlaceholdersAt(Tail(value), captures) # {}
         THEN LET n == Largest(PlaceholdersAt(Tail(value), captures)) IN
              GroupText(captures, n) \o
              SimultaneousSubstitution(
                  SubSeq(value, 2 + Len(DecimalText(n)), Len(value)), captures)
    ELSE <<value[1]>> \o SimultaneousSubstitution(Tail(value), captures)

AllGroupsParticipate(captures) ==
    \A n \in 1..GroupCount(captures) : captures[n + 1] # None

\* C12: when every group took part in the match, the substituted text is
\* the simultaneous substitution of the template: every $N, multi-digit N
\* included, gives the text of group N, and inserted text is not scanned
\* again for placeholders.
C12_SubstitutionIsSimultaneous ==
    (s_result.done /\ AllGroupsParticipate(s_captures)) =>
        s_result.text = SimultaneousSubstitution(s_value, s_captures)

\* The inputs on which nothing but the handling of absent groups and of
\* numbers beyond the group count is in play: fewer than ten groups, no
\* dollar sign in a matched text, no dollar sign followed by two digits
SingleDigitCase(value, captures) ==
    /\ GroupCount(captures) < 10
    /\ \A n \in 1..GroupCount(captures) : ~ContainsChar(GroupText(captures, n), "$")
    /\ \A i \in 1..(Len(value) - 2) :
          ~(value[i] = "$" /\ value[i + 1] \in DigitChars /\ value[i + 2] \in DigitChars)

\* C13: a placeholder $N whose group did not take part in the match is
\* replaced by the empty string, and a placeholder $N with N greater than
\* the number of groups stays in the result as literal text.
C13_AbsentGroupEmptyUnknownLiteral ==
    (s_result.done /\ SingleDigitCase(s_value, s_captures)) =>
        s_result.text = SimultaneousSubstitution(s_value, s_captures)

(***************************************************************************)
(* Claims about the escape decoding.                                       *)
(***************************************************************************)
\* The byte of a two-character escape, by the letter after the backslash
EscapeByte(ch) ==
    CASE ch = "n" -> 10 [] ch = "r" -> 13 [] ch = "t" -> 9 [] ch = "0" -> 0
      [] ch = "\\" -> 92

\* The source starts with one of the escapes \n \r \t \0 \\
StartsSimpleEscape(src) ==
    Len(src) >= 2 /\ src[1] = "\\" /\ src[2] \in {"n", "r", "t", "0", "\\"}

\* The source starts with \xHH, H a hexadecimal digit
StartsHexEscape(src) ==
    /\ Len(src) >= 4 /\ src[1] = "\\" /\ src[2] = "x"
    /\ IsHexDigit(src[3]) /\ IsHexDigit(src[4])

\* The decoding as stated: the six escapes give one byte each, every other
\* character gives its own byte, in order
RECURSIVE StatedDecoding(_)
StatedDecoding(src) ==
    IF src = <<>> THEN <<>>
    ELSE IF StartsSimpleEscape(src)
         THEN <<EscapeByte(src[2])>> \o StatedDecoding(SubSeq(src, 3, Len(src)))
    ELSE IF StartsHexEscape(src)
         THEN <<16 * HexDigitVal(src[3]) + HexDigitVal(src[4])>>
              \o StatedDecoding(SubSeq(src, 5, Len(src)))
    ELSE <<CharByte(src[1])>> \o StatedDecoding(Tail(src))

\* C14: escape decoding maps \n, \r, \t, \0, \\ and \xHH to the single
\* bytes 0x0A, 0x0D, 0x09, 0x00, 0x5C and 0xHH and every other character
\* to its own byte, in order.
C14_DecodingMapsEscapesAndOwnBytes ==
    d_bytes.done => d_bytes.bytes = StatedDecoding(d_source)

(***************************************************************************)
(* The port syntax stated on its own terms, for comparison with the parser.*)
(***************************************************************************)
RECURSIVE DecimalValue(_)
DecimalValue(d) ==
    IF d = <<>> THEN 0
    ELSE DecimalValue(SubSeq(d, 1, Len(d) - 1)) * 10 + DigitVal(d[Len(d)])

Unsigned(t) == IF Len(t) > 0 /\ t[1] = "+" THEN Tail(t) ELSE t

\* t is the text of a u16 integer
IsU16Text(t) ==
    /\ Len(Unsigned(t)) >= 1
    /\ \A i \in 1..Len(Unsigned(t)) : Unsigned(t)[i] \in DigitChars
    /\ DecimalValue(Unsigned(t)) <= U16Max

U16Of(t) == DecimalValue(Unsigned(t))

HyphenPos(t) == {i \in 1..Len(t) : t[i] = "-"}

\* t is start-end, two u16 integers with start <= end
IsRangeText(t) ==
    /\ Cardinality(HyphenPos(t)) = 1
    /\ LET h == CHOOSE i \in HyphenPos(t) : TRUE IN
        /\ IsU16Text(SubSeq(t, 1, h - 1))
        /\ IsU16Text(SubSeq(t, h + 1, Len(t)))
        /\ U16Of(SubSeq(t, 1, h - 1)) <= U16Of(SubSeq(t, h + 1, Len(t)))

\* The token with its surrounding blanks removed
Trimmed(t) ==
    LET solid == {i \in 1..Len(t) : ~IsSpace(t[i])} IN
    IF solid = {} THEN <<>>
    ELSE SubSeq(t, CHOOSE i \in solid : \A j \in solid : i <= j,
                   CHOOSE i \in solid : \A j \in solid : i >= j)

\* What a token stands for
TokenPorts(tok) ==
    LET t == Trimmed(tok) IN
    IF HyphenPos(t) = {} /\ IsU16Text(t) THEN <<U16Of(t)>>
    ELSE IF IsRangeText(t) THEN
        LET h == CHOOSE i \in HyphenPos(t) : TRUE
            lo == U16Of(SubSeq(t, 1, h - 1))
            hi == U16Of(SubSeq(t, h + 1, Len(t)))
        IN  [k \in 1..(hi - lo + 1) |-> lo + k - 1]
    ELSE <<>>

\* The k-th comma-separated token of s, by the positions of the commas
CommaPos(s) == {i \in 1..Len(s) : s[i] = ","}
TokenCount(s) == Cardinality(CommaPos(s)) + 1
TokenAt(s, k) ==
    LET before == IF k = 1 THEN 0
                  ELSE CHOOSE i \in CommaPos(s) :
                         Cardinality({j \in CommaPos(s) : j < i}) = k - 2
        after == IF k = TokenCount(s) THEN Len(s) + 1
                 ELSE CHOOSE i \in CommaPos(s) :
                         Cardinality({j \in CommaPos(s) : j < i}) = k - 1
    IN  SubSeq(s, before + 1, after - 1)

RECURSIVE TokensUpTo(_, _)
TokensUpTo(s, k) ==
    IF k = 0 THEN <<>> ELSE TokensUpTo(s, k - 1) \o TokenPorts(TokenAt(s, k))

ExpectedPorts(s) == TokensUpTo(s, TokenCount(s))

\* A token that is neither a u16 integer nor a well-formed range
MalformedToken(t) ==
    /\ CommaPos(t) = {}
    /\ ~(HyphenPos(Trimmed(t)) = {} /\ IsU16Text(Trimmed(t)))
    /\ ~IsRangeText(Trimmed(t))

\* C7: parse_ports returns the concatenation, in token order, of each
\* comma-separated token's expansion (an integer gives itself, start-end
\* gives start..end ascending), without deduplication; "80,443,1000-1002"
\* gives [80, 443, 1000, 1001, 1002].
C7_ParsePortsExpandsTokensInOrder ==
    port_list.done =>
        /\ port_list.a = ExpectedPorts(ports_str)
        /\ port_list.b = ExpectedPorts(ports_more)
        /\ (ports_str = Str_example => port_list.a = <<80, 443, 1000, 1001, 1002>>)

\* C7 witness: the example of the specification has been parsed
C7_Witness ==
    /\ port_list.done
    /\ ports_str = Str_example
    /\ port_list.a = <<80, 443, 1000, 1001, 1002>>

\* C8: parse_ports(a + "," + b) is parse_ports(a) followed by parse_ports(b),
\* and a malformed token alone parses to the empty list.
C8_MalformedTokenDroppedOthersKept ==
    port_list.done =>
        /\ port_list.ab = port_list.a \o port_list.b
        /\ (MalformedToken(ports_str) => port_list.a = <<>>)
        /\ (MalformedToken(ports_more) => port_list.b = <<>>)

\* C8 witness: a reversed range next to a good token leaves only the good one
C8_Witness ==
    /\ port_list.done
    /\ ports_str = <<"2", "-", "1">>
    /\ ports_more = <<"2", "2">>
    /\ port_list.ab = <<22>>


(***************************************************************************)
(* Claims about the connect-error classification.                          *)
(***************************************************************************)
\* word occurs in msg, each letter in either case
HasWordAnyCase(msg, word) ==
    \E i \in 0..(Len(msg) - Len(word)) :
        \A j \in 1..Len(word) :
            \/ msg[i + j] = word[j]
            \/ \E k \in 1..26 : LowerChars[k] = word[j] /\ UpperChars[k] = msg[i + j]

\* C3: a structured error kind decides the state whatever the message says:
\* connection-refused gives Closed; timed-out, permission-denied,
\* network-unreachable and host-unreachable give Filtered.
C3_StructuredKindDecidesState ==
    err_state # "none" =>
        /\ (err_kind = "ConnectionRefused" => err_state = "Closed")
        /\ (err_kind \in {"TimedOut", "PermissionDenied", "NetworkUnreachable",
                           "HostUnreachable"} => err_state = "Filtered")

\* C3 witness: a timed-out error whose message says "refused" is Filtered
C3_Witness ==
    /\ err_kind = "TimedOut"
    /\ HasWordAnyCase(err_msg, Str_refused)
    /\ err_state = "Filtered"

\* C4: for any other kind the lower-cased message decides: "refused" gives
\* Closed, else "timeout", "unreachable" or "filtered" give Filtered, else
\* Closed; "refused" wins over the Filtered words.
C4_MessageFallbackRefusedFirst ==
    (err_state # "none" /\ err_kind \notin StructuredKinds) =>
        err_state =
            IF HasWordAnyCase(err_msg, Str_refused) THEN "Closed"
            ELSE IF \/ HasWordAnyCase(err_msg, Str_timeout)
                    \/ HasWordAnyCase(err_msg, Str_unreachable)
                    \/ HasWordAnyCase(err_msg, Str_filtered) THEN "Filtered"
            ELSE "Closed"

\* C4 witness: an unstructured error naming both "refused" and "unreachable"
\* has been classified Closed
C4_Witness ==
    /\ err_kind \notin StructuredKinds
    /\ HasWordAnyCase(err_msg, Str_refused)
    /\ HasWordAnyCase(err_msg, Str_unreachable)
    /\ err_state = "Closed"

(***************************************************************************)
(* Claims about the matcher.                                               *)
(***************************************************************************)
\* The entry's pattern compiles and matches the response
EntryMatches(entry, response) ==
    RegexCompiles(entry.pattern) /\ RegexCaptures(entry.pattern, response) # None

HitsOf(entries, response) ==
    {i \in 1..Len(entries) : EntryMatches(entries[i], response)}

FirstHit(entries, response) ==
    CHOOSE i \in HitsOf(entries, response) :
        \A j \in HitsOf(entries, response) : i <= j

\* C10: the first matching hard match, in list order, gives the service with
\* confidence 90; soft matches count only when no hard match matches, and
\* the first matching one gives the service with confidence 50; otherwise
\* there is no service. The confidence is 90 exactly for a hard match.
C10_HardBeforeSoftFirstWins ==
    m_result.done =>
        IF HitsOf(m_probe.matches, m_response) # {}
        THEN /\ m_result.service # None
             /\ m_result.service[1].service =
                    m_probe.matches[FirstHit(m_probe.matches, m_response)].service
             /\ m_result.service[1].confidence = 90
        ELSE IF HitsOf(m_probe.soft_matches, m_response) # {}
        THEN /\ m_result.service # None
             /\ m_result.service[1].service =
                    m_probe.soft_matches[FirstHit(m_probe.soft_matches, m_response)].service
             /\ m_result.service[1].confidence = 50
        ELSE m_result.service = None

\* C10 witness: two hard matches of different services and a soft match all
\* match the response, and the first hard match won with confidence 90
C10_Witness ==
    /\ m_result.done
    /\ HitsOf(m_probe.matches, m_response) = {1, 2}
    /\ m_probe.matches[1].service # m_probe.matches[2].service
    /\ HitsOf(m_probe.soft_matches, m_response) # {}
    /\ m_result.service # None
    /\ m_result.service[1].service = m_probe.matches[1].service
    /\ m_result.service[1].confidence = 90

(***************************************************************************)
(* Claims about the probe loader.                                          *)
(***************************************************************************)
\* The whitespace tokens of line k of the file
LineTokens(k) == SplitWhitespace(Trim(nmap_content[k]))

\* Line k is a directive whose first token is word
IsDirective(k, word) == LineTokens(k) # <<>> /\ LineTokens(k)[1] = word

\* The Probe lines of the file, and those with the four tokens of
\* Probe <protocol> <name> <probestring>
ProbeDirectives == {k \in 1..Len(nmap_content) : IsDirective(k, Str_Probe)}
OpeningProbeLines == {k \in ProbeDirectives : Len(LineTokens(k)) >= 4}

\* The j-th number of a set of numbers, counted from the smallest
Nth(S, j) == CHOOSE k \in S : Cardinality({m \in S : m < k}) = j - 1

\* The lines between Probe line k and the next Probe line
BlockOf(k) ==
    {m \in (k + 1)..Len(nmap_content) : \A n \in (k + 1)..m : n \notin ProbeDirectives}

\* The bytes of a text stored as it stands
TextBytes(text) == [i \in 1..Len(text) |-> CharByte(text[i])]

\* C27: every probe in the database holds its payload already
\* escape-decoded: the stored payload of an entry is the decoding of the
\* probestring content of its Probe line.
C27_StoredPayloadIsDecoded ==
    nmap_probes.done =>
        \A j \in 1..Len(nmap_probes.db.probes) :
            j <= Cardinality(OpeningProbeLines) =>
                TextBytes(nmap_probes.db.probes[j].probe_string) =
                    decode_probe_string(
                        parse_probe_string(
                            JoinFrom(LineTokens(Nth(OpeningProbeLines, j)), 4)))

\* The positions of a character in a text
Occurrences(text, c) == {i \in 1..Len(text) : text[i] = c}

Smallest(S) == CHOOSE n \in S : \A k \in S : n <= k

\* The characters strictly between the first and the last occurrence of the
\* character that follows the leading letter
BetweenDelimiters(text) ==
    SubSeq(text, Smallest(Occurrences(text, text[2])) + 1,
                 Largest(Occurrences(text, text[2])) - 1)

\* A probestring q<d>...<d>: the delimiter is neither q nor a space and
\* occurs twice at least
WellFormedProbeString(text) ==
    /\ Len(text) >= 3
    /\ text[1] = "q"
    /\ text[2] \notin {"q", " "}
    /\ Cardinality(Occurrences(text, text[2])) >= 2

\* The probestring of a generated Probe line
ProbeStringOf(line) == SubSeq(line, Len(ProbePrefix) + 1, Len(line))

\* C28: for every Probe line the stored probe string is exactly the
\* characters of the line's probestring strictly between the first and the
\* last occurrence of the delimiter, also when the payload has spaces, runs
\* of spaces or further occurrences of the delimiter in it.
C28_ProbeStringBetweenDelimiters ==
    ( /\ nmap_probes.done
      /\ Len(nmap_content) = 1
      /\ StartsWith(nmap_content[1], ProbePrefix)
      /\ WellFormedProbeString(ProbeStringOf(nmap_content[1])) ) =>
        /\ Len(nmap_probes.db.probes) = 1
        /\ nmap_probes.db.probes[1].probe_string =
               BetweenDelimiters(ProbeStringOf(nmap_content[1]))

\* The lines of the block of Probe line k that are directives named word,
\* in file order
BlockLines(k, word) ==
    Pick(nmap_content, {m \in BlockOf(k) : IsDirective(m, word)}, 1)

\* The entries given by the match or softmatch lines of a block
StatedMatches(k, word) ==
    LET given == SelectSeq(BlockLines(k, word),
                           LAMBDA l : Len(SplitWhitespace(l)) >= 3)
    IN  [i \in 1..Len(given) |-> parse_match_line(Trim(given[i]))[1]]

\* The arguments given by the ports, sslports or fallback lines of a block
StatedArguments(k, word) ==
    LET given == SelectSeq(BlockLines(k, word),
                           LAMBDA l : Len(SplitWhitespace(l)) >= 2)
    IN  [i \in 1..Len(given) |-> JoinFrom(SplitWhitespace(given[i]), 2)]

StatedFallback(k) ==
    IF StatedArguments(k, Str_fallback) = <<>> THEN None
    ELSE Some(StatedArguments(k, Str_fallback)[Len(StatedArguments(k, Str_fallback))])

\* entry holds what the directives of the block of Probe line k give
EntryOfBlock(entry, k) ==
    /\ entry.matches = StatedMatches(k, Str_match)
    /\ entry.soft_matches = StatedMatches(k, Str_softmatch)
    /\ entry.ports = StatedArguments(k, Str_ports)
    /\ entry.ssl_ports = StatedArguments(k, Str_sslports)
    /\ entry.fallback = StatedFallback(k)

\* C29 as stated: after loading any input the probes list holds one entry
\* per Probe directive in file order, the last included, and each entry's
\* matches, soft matches, ports, sslports and fallback are those of the
\* directives between its Probe line and the next.
C29_OneEntryPerProbeDirective ==
    nmap_probes.done =>
        /\ Len(nmap_probes.db.probes) = Cardinality(ProbeDirectives)
        /\ \A j \in 1..Len(nmap_probes.db.probes) :
              j <= Cardinality(ProbeDirectives) =>
                  EntryOfBlock(nmap_probes.db.probes[j], Nth(ProbeDirectives, j))

\* C29 amended: the probes list holds one entry per Probe line of four
\* tokens at least, in file order, the last included, with the protocol and
\* name of that line; each entry's matches, soft matches, ports, sslports
\* and fallback are those of the directives between its Probe line and the
\* next Probe line of any length; a Probe line of fewer tokens gives no
\* entry and the directives that follow it are attached to no probe.
C29_OneEntryPerOpeningProbeLine ==
    nmap_probes.done =>
        /\ Len(nmap_probes.db.probes) = Cardinality(OpeningProbeLines)
        /\ \A j \in 1..Len(nmap_probes.db.probes) :
              LET k == Nth(OpeningProbeLines, j) IN
              /\ nmap_probes.db.probes[j].protocol = LineTokens(k)[2]
              /\ nmap_probes.db.probes[j].name = LineTokens(k)[3]
              /\ EntryOfBlock(nmap_probes.db.probes[j], k)

\* C29 witness: a file of a Probe line, a match line and a second Probe
\* line gives two entries, the match in the first, the last probe included
C29_Witness ==
    /\ nmap_probes.done
    /\ nmap_content = <<Line_ProbeNull, Line_Match, Line_ProbeA>>
    /\ Len(nmap_probes.db.probes) = 2
    /\ Len(nmap_probes.db.probes[1].matches) = 1
    /\ nmap_probes.db.probes[2].matches = <<>>
    /\ nmap_probes.db.probes[2].name = <<"A">>

\* The text after "match <service> " of a generated match line, and its
\* pattern clause
AfterService(line) == SubSeq(line, Len(MatchPrefix) + 1, Len(line))

HasFieldSuffix(text) ==
    /\ Len(text) >= Len(FieldSuffix)
    /\ SubSeq(text, Len(text) - Len(FieldSuffix) + 1, Len(text)) = FieldSuffix

ClauseOf(line) ==
    IF HasFieldSuffix(AfterService(line))
    THEN SubSeq(AfterService(line), 1, Len(AfterService(line)) - Len(FieldSuffix))
    ELSE AfterService(line)

\* A pattern clause m<d>...<d>[flags]: the delimiter is neither m nor a
\* space, occurs exactly twice, and the flags have no space in them
WellFormedClause(clause) ==
    /\ Len(clause) >= 3
    /\ clause[1] = "m"
    /\ clause[2] \notin {"m", " "}
    /\ Cardinality(Occurrences(clause, clause[2])) = 2
    /\ \A i \in (Largest(Occurrences(clause, clause[2])) + 1)..Len(clause) :
          clause[i] # " "

\* C30: for every match line the stored pattern is the text of the pattern
\* clause strictly between its opening and its closing delimiter, the flags
\* discarded, also when the pattern contains spaces, and the version fields
\* are those of the tokens after the closing delimiter.
C30_PatternBetweenDelimiters ==
    ( /\ nmap_probes.done
      /\ Len(nmap_content) = 2
      /\ nmap_content[1] = Line_ProbeNull
      /\ StartsWith(nmap_content[2], MatchPrefix)
      /\ WellFormedClause(ClauseOf(nmap_content[2])) ) =>
        /\ Len(nmap_probes.db.probes) = 1
        /\ nmap_probes.db.probes[1].matches =
              << [ service |-> <<"s">>,
                   pattern |-> BetweenDelimiters(ClauseOf(nmap_content[2])),
                   version_info |->
                       IF HasFieldSuffix(AfterService(nmap_content[2]))
                       THEN [x \in {"p"} |-> <<"x">>]
                       ELSE <<>> ] >>

\* A text that is a valid integer for a field: digits after at most one
\* "+", of a value the type of the field holds (u8 for rarity, u32 else)
StatedValidInteger(text, isU8) ==
    LET d == IF Len(text) > 0 /\ text[1] = "+" THEN Tail(text) ELSE text IN
    /\ d # <<>>
    /\ \A i \in 1..Len(d) : d[i] \in DigitChars
    /\ Len(d) <= 9
    /\ (isU8 => DigitsValue(d, 1, 0) <= 255)

\* Line k is a directive named word with a value
ValueDirective(k, word) == IsDirective(k, word) /\ Len(LineTokens(k)) > 1

\* Line k is a totalwaitms, tcpwrappedms or rarity directive whose value is
\* not a valid integer for the field
InvalidIntegerLine(k) ==
    \/ /\ ValueDirective(k, Str_totalwaitms) \/ ValueDirective(k, Str_tcpwrappedms)
       /\ ~StatedValidInteger(LineTokens(k)[2], FALSE)
    \/ /\ ValueDirective(k, Str_rarity)
       /\ ~StatedValidInteger(LineTokens(k)[2], TRUE)

\* The block of Probe line k gives no valid value for the field of word
NoValidValue(k, word, isU8) ==
    \A m \in BlockOf(k) :
        ValueDirective(m, word) => ~StatedValidInteger(LineTokens(m)[2], isU8)

\* C31: a totalwaitms, tcpwrappedms or rarity directive whose value is not a
\* valid integer for the field changes nothing: the database is the one
\* loaded from the file without these lines, and a field for which the block
\* of a probe gives no valid value is unset.
C31_InvalidIntegerChangesNothing ==
    nmap_probes.done =>
        /\ nmap_probes.db =
              parse_nmap_probes_json(
                  Pick(nmap_content,
                       {k \in 1..Len(nmap_content) : ~InvalidIntegerLine(k)}, 1))
        /\ \A j \in 1..Len(nmap_probes.db.probes) :
              LET k == Nth(OpeningProbeLines, j)
                  entry == nmap_probes.db.probes[j]
              IN
              /\ (NoValidValue(k, Str_totalwaitms, FALSE) => entry.total_wait_ms = None)
              /\ (NoValidValue(k, Str_tcpwrappedms, FALSE) => entry.tcp_wrapped_ms = None)
              /\ (NoValidValue(k, Str_rarity, TRUE) => entry.rarity = None)

\* C31 witness: after a valid totalwaitms, a rarity of 300 (no u8) leaves
\* rarity unset and the wait of 60 in place
C31_Witness ==
    /\ nmap_probes.done
    /\ nmap_content = <<Line_ProbeNull, Line_TotalWait, Line_Rarity>>
    /\ Len(nmap_probes.db.probes) = 1
    /\ nmap_probes.db.probes[1].rarity = None
    /\ nmap_probes.db.probes[1].total_wait_ms = Some(60)

\* The keys a version_info mapping may have
FieldKeys == {"p", "v", "i", "h", "o", "d", "cpe"}

\* The last token of a generated match line, its tag and the text after it
LastToken(line) == SubSeq(line, Len(FieldLinePrefix) + 1, Len(line))

TagOf(token) == IF StartsWith(token, Str_cpe) THEN Str_cpe ELSE <<token[1]>>

BodyOf(token) == SubSeq(token, Len(TagOf(token)) + 1, Len(token))

\* A well-formed field spec: a known tag, then a delimiter that occurs a
\* second time
WellFormedField(token) ==
    /\ TagOf(token) \in { <<"p">>, <<"v">>, <<"i">>, <<"h">>, <<"o">>, <<"d">>, Str_cpe }
    /\ Len(BodyOf(token)) >= 2
    /\ Cardinality(Occurrences(BodyOf(token), BodyOf(token)[1])) >= 2

\* C32: for every match line each key of version_info is one of p, v, i, h,
\* o, d, cpe; a trailing token that is no well-formed field spec (unknown
\* tag, fewer than two delimiters) adds nothing to the mapping, and the
\* entry and its other fields are stored all the same.
C32_MalformedFieldAddsNothing ==
    nmap_probes.done =>
        /\ \A j \in 1..Len(nmap_probes.db.probes) :
              /\ \A i \in 1..Len(nmap_probes.db.probes[j].matches) :
                    DOMAIN nmap_probes.db.probes[j].matches[i].version_info
                        \subseteq FieldKeys
              /\ \A i \in 1..Len(nmap_probes.db.probes[j].soft_matches) :
                    DOMAIN nmap_probes.db.probes[j].soft_matches[i].version_info
                        \subseteq FieldKeys
        /\ ( /\ Len(nmap_content) = 2
             /\ StartsWith(nmap_content[2], FieldLinePrefix)
             /\ ~WellFormedField(LastToken(nmap_content[2])) ) =>
                nmap_probes.db.probes[1].matches =
                    << [ service |-> <<"s">>, pattern |-> <<"a">>,
                         version_info |-> [x \in {"p"} |-> <<"x">>] ] >>

\* The directives that belong to a probe
ProbeLevelWords ==
    { Str_match, Str_softmatch, Str_ports, Str_sslports, Str_totalwaitms,
      Str_tcpwrappedms, Str_rarity, Str_fallback }

\* No probe is open when line k is read: no Probe line comes before it, or
\* the last Probe line before it has fewer than four tokens
NoProbeOpenAt(k) ==
    LET before == {m \in ProbeDirectives : m < k} IN
    before = {} \/ Largest(before) \notin OpeningProbeLines

\* Line k is a directive of a probe read while no probe is open
UnattachedLine(k) ==
    /\ LineTokens(k) # <<>>
    /\ LineTokens(k)[1] \in ProbeLevelWords
    /\ NoProbeOpenAt(k)

\* Line k is a comment, is blank, or starts with a word that is no directive
SkippedLine(k) ==
    \/ Trim(nmap_content[k]) = <<>>
    \/ Trim(nmap_content[k])[1] = "#"
    \/ LineTokens(k)[1] \notin ProbeLevelWords \cup {Str_Exclude, Str_Probe}

\* The parser state after the first k lines of the file
StateAfter(k) == ParseLines(SubSeq(nmap_content, 1, k), 1, ParserInit)

\* C39: a match, softmatch, ports, sslports, totalwaitms, tcpwrappedms,
\* rarity or fallback directive read while no probe is open (before the
\* first Probe line, or after a Probe line with fewer than four tokens)
\* changes nothing and is attached to no probe already stored; comment
\* lines, blank lines and unknown directives leave the whole parser state
\* unchanged. The database is the one loaded from the file without them.
C39_UnattachedDirectiveChangesNothing ==
    nmap_probes.done =>
        /\ \A k \in 1..Len(nmap_content) :
              (UnattachedLine(k) \/ SkippedLine(k)) => StateAfter(k) = StateAfter(k - 1)
        /\ nmap_probes.db =
              parse_nmap_probes_json(
                  Pick(nmap_content,
                       {k \in 1..Len(nmap_content) :
                           ~UnattachedLine(k) /\ ~SkippedLine(k)}, 1))

\* C39 witness: a ports line after a short Probe line that closed the NULL
\* probe: one entry is stored and it lists no ports
C39_Witness ==
    /\ nmap_probes.done
    /\ nmap_content = <<Line_ProbeNull, Line_ProbeShort, Line_Ports>>
    /\ UnattachedLine(3)
    /\ Len(nmap_probes.db.probes) = 1
    /\ nmap_probes.db.probes[1].ports = <<>>

\* The entry's pattern is the one of the pool that is no regular expression
Uncompilable(entry) == entry.pattern = Pat_Unclosed

\* The entries of a list whose pattern compiles, in list order
Compilable(entries) ==
    Pick(entries, {i \in 1..Len(entries) : ~Uncompilable(entries[i])}, 1)

\* C40: a match or soft-match entry whose pattern does not compile never
\* matches any response and raises no error: evaluation continues with the
\* next entry of the list exactly as if the pattern had not matched, so the
\* outcome is the one of the probe without these entries.
C40_UncompilablePatternNeverMatches ==
    m_result.done =>
        /\ m_result.service =
              MatchProbe([m_probe EXCEPT !.matches = Compilable(@),
                                         !.soft_matches = Compilable(@)],
                         m_response)
        /\ \A i \in 1..Len(m_probe.matches) :
              Uncompilable(m_probe.matches[i]) =>
                  match_response(m_response, m_probe.matches[i]) = None
        /\ \A i \in 1..Len(m_probe.soft_matches) :
              Uncompilable(m_probe.soft_matches[i]) =>
                  match_response(m_response, m_probe.soft_matches[i]) = None
        /\ ( /\ \A i \in 1..Len(m_probe.matches) : Uncompilable(m_probe.matches[i])
             /\ \A i \in 1..Len(m_probe.soft_matches) : Uncompilable(m_probe.soft_matches[i]) )
              => m_result.service = None

\* C40 witness: the first hard match has a pattern that does not compile,
\* the second, of another service, matches the response and gives the service
C40_Witness ==
    /\ m_result.done
    /\ Len(m_probe.matches) = 2
    /\ Uncompilable(m_probe.matches[1])
    /\ m_probe.matches[1].service = "ssh"
    /\ m_probe.matches[2].service = "http"
    /\ m_probe.matches[2].pattern = Pat_S
    /\ m_result.service # None
    /\ m_result.service[1].service = "http"
    /\ m_result.service[1].confidence = 90

====
